---- MODULE Spec2Model ----
(***************************************************************************)
(* Lintwise: the concurrent review pipeline (orchestrator/pipeline.py),    *)
(* the analyzer invocation (agents/base.py) and the aggregator             *)
(* (orchestrator/aggregator.py), as a state machine.                       *)
(*                                                                         *)
(* One step of a task is the code a coroutine runs between two suspension  *)
(* points of the event loop.  Optional values (Python's None) are          *)
(* sequences of length at most one: <<>> is None, <<v>> is the value v.    *)
(* Confidences are counted in tenths (7 is 0.7).                           *)
(***************************************************************************)
EXTENDS Integers, Sequences, FiniteSets, TLC

(***************************************************************************)
(* Bounds of the model.                                                    *)
(***************************************************************************)
\* the task matrix holds at most MaxTasks (file, analyzer) pairs
MaxTasks == 4
\* max_concurrent ranges over 1..MaxGate
MaxGate == 2

(***************************************************************************)
(* Program constants.                                                      *)
(***************************************************************************)
AGENT_CLASSES == <<"logic_agent", "readability_agent", "performance_agent", "security_agent">>

AgentCategory(name) ==
    CASE name = "logic_agent" -> "logic"
      [] name = "readability_agent" -> "readability"
      [] name = "performance_agent" -> "performance"
      [] OTHER -> "security"

Severity == {"critical", "warning", "suggestion", "nitpick"}

\* mutant: a nitpick lowers the sum
SEVERITY_WEIGHTS_negative(s) ==
    CASE s = "critical" -> 10
      [] s = "warning" -> 3
      [] s = "suggestion" -> 1
      [] s = "nitpick" -> 0 - 1
      [] OTHER -> 0

SEVERITY_WEIGHTS(s) ==
    CASE s = "critical" -> 10
      [] s = "warning" -> 3
      [] s = "suggestion" -> 1
      [] s = "nitpick" -> 0
      [] OTHER -> 0

RISK_THRESHOLDS == [low |-> 5, medium |-> 15, high |-> 30]

\* the default of run_review's timeout_per_agent, as Python formats the float
timeout_per_agent == "60.0"
\* the default of retry_with_backoff's max_retries
max_retries == 3
\* the default of TokenBucketRateLimiter's max_concurrent
rl_max_concurrent == 4

None == <<>>
Some(v) == <<v>>

(***************************************************************************)
(* Strings: str.lower(), str.strip() and the formatting of a line number.  *)
(***************************************************************************)
UpperChars == "ABCDEFGHIJKLMNOPQRSTUVWXYZ"
LowerChars == "abcdefghijklmnopqrstuvwxyz"
Whitespace == {" ", "\t", "\n", "\r"}
Digits == "0123456789"

CharAt(s, i) == SubSeq(s, i, i)

\* the lower-case letter of each upper-case letter
LowerOf ==
    [c \in {CharAt(UpperChars, i) : i \in 1..Len(UpperChars)} |->
        CharAt(LowerChars, CHOOSE i \in 1..Len(UpperChars) : CharAt(UpperChars, i) = c)]

LowerChar(c) == IF c \in DOMAIN LowerOf THEN LowerOf[c] ELSE c

RECURSIVE Lower(_)
Lower(s) ==
    IF Len(s) = 0 THEN ""
    ELSE LowerChar(CharAt(s, 1)) \o Lower(SubSeq(s, 2, Len(s)))

RECURSIVE LStrip(_)
LStrip(s) ==
    IF Len(s) > 0 /\ CharAt(s, 1) \in Whitespace
    THEN LStrip(SubSeq(s, 2, Len(s)))
    ELSE s

RECURSIVE RStrip(_)
RStrip(s) ==
    IF Len(s) > 0 /\ CharAt(s, Len(s)) \in Whitespace
    THEN RStrip(SubSeq(s, 1, Len(s) - 1))
    ELSE s

Strip(s) == RStrip(LStrip(s))

RECURSIVE IntStr(_)
IntStr(n) ==
    IF n < 0 THEN "-" \o IntStr(0 - n)
    ELSE IF n < 10 THEN CharAt(Digits, n + 1)
    ELSE IntStr(n \div 10) \o CharAt(Digits, (n % 10) + 1)

\* f"{comment.line}" for a line of type int | None
LineStr(line) == IF line = None THEN "None" ELSE IntStr(line[1])

IsDigits(s) ==
    /\ Len(s) > 0
    /\ \A i \in 1..Len(s) : \E d \in 1..Len(Digits) : CharAt(s, i) = CharAt(Digits, d)

DigitValue(c) == (CHOOSE d \in 1..Len(Digits) : CharAt(Digits, d) = c) - 1

RECURSIVE IntOf(_)
\* the number a string of digits denotes
IntOf(s) ==
    IF Len(s) = 0 THEN 0
    ELSE 10 * IntOf(SubSeq(s, 1, Len(s) - 1)) + DigitValue(CharAt(s, Len(s)))

\* pydantic's conversion of a str to an int field: <<n>>, or <<>> when it fails
\* (strings of digits only; signs and blanks are not modelled)
StrToInt(s) == IF IsDigits(s) THEN <<IntOf(s)>> ELSE <<>>

\* float(s) in tenths: <<n>>, or <<>> when it raises ValueError. Strings of the
\* forms "d..d" and "d..d.d" are converted; any other string raises here
StrToFloat(s) ==
    IF IsDigits(s) THEN <<10 * IntOf(s)>>
    ELSE IF /\ Len(s) >= 3
            /\ CharAt(s, Len(s) - 1) = "."
            /\ IsDigits(SubSeq(s, 1, Len(s) - 2))
            /\ IsDigits(CharAt(s, Len(s)))
    THEN <<10 * IntOf(SubSeq(s, 1, Len(s) - 2)) + DigitValue(CharAt(s, Len(s)))>>
    ELSE <<>>

(***************************************************************************)
(* orchestrator/aggregator.py                                              *)
(***************************************************************************)
DedupKey(comment) ==
    comment.file \o ":" \o LineStr(comment.line) \o ":" \o Strip(Lower(comment.title))

\* mutant: a replaced entry is deleted and inserted anew, at the end of the dict
DedupStepMoveToEnd(seen, comment) ==
    LET key == DedupKey(comment)
    IN  IF \E i \in 1..Len(seen) : seen[i][1] = key
        THEN LET i == CHOOSE j \in 1..Len(seen) : seen[j][1] = key
             IN  IF comment.confidence > seen[i][2].confidence
                 THEN Append(SubSeq(seen, 1, i - 1) \o SubSeq(seen, i + 1, Len(seen)),
                             <<key, comment>>)
                 ELSE seen
        ELSE Append(seen, <<key, comment>>)

\* one iteration of the loop of deduplicate_comments: `seen` is the dict in
\* insertion order, a sequence of <<key, comment>> pairs
DedupStep(seen, comment) ==
    LET key == DedupKey(comment)
    IN  IF \E i \in 1..Len(seen) : seen[i][1] = key
        THEN LET i == CHOOSE j \in 1..Len(seen) : seen[j][1] = key
             IN  IF comment.confidence > seen[i][2].confidence
                 THEN [seen EXCEPT ![i] = <<key, comment>>]
                 ELSE seen
        ELSE Append(seen, <<key, comment>>)

RECURSIVE DedupLoop(_, _)
DedupLoop(seen, comments) ==
    IF comments = <<>> THEN seen
    ELSE DedupLoop(DedupStep(seen, Head(comments)), Tail(comments))

\* mutant: the values of `seen` are returned last key first
deduplicate_comments_reversed(comments) ==
    LET seen == DedupLoop(<<>>, comments)
    IN  [i \in 1..Len(seen) |-> seen[Len(seen) + 1 - i][2]]

deduplicate_comments(comments) ==
    LET seen == DedupLoop(<<>>, comments)
    IN  [i \in 1..Len(seen) |-> seen[i][2]]

severity_order(s) ==
    CASE s = "critical" -> 0
      [] s = "warning" -> 1
      [] s = "suggestion" -> 2
      [] s = "nitpick" -> 3
      [] OTHER -> 99

\* mutant: the sort key (severity_order, confidence)
RankLessAscending(a, b) ==
    \/ severity_order(a.severity) < severity_order(b.severity)
    \/ /\ severity_order(a.severity) = severity_order(b.severity)
       /\ a.confidence < b.confidence

\* the sort key (severity_order, -confidence), compared as Python compares tuples
RankLess(a, b) ==
    \/ severity_order(a.severity) < severity_order(b.severity)
    \/ /\ severity_order(a.severity) = severity_order(b.severity)
       /\ (0 - a.confidence) < (0 - b.confidence)

\* mutant: c goes before the elements that compare equal to it
RECURSIVE RankInsertBeforeEqual(_, _)
RankInsertBeforeEqual(sorted, c) ==
    IF sorted = <<>> THEN <<c>>
    ELSE IF ~RankLess(Head(sorted), c) THEN <<c>> \o sorted
    ELSE <<Head(sorted)>> \o RankInsertBeforeEqual(Tail(sorted), c)

\* stable insertion: c goes after every element that is not greater than it
RECURSIVE RankInsert(_, _)
RankInsert(sorted, c) ==
    IF sorted = <<>> THEN <<c>>
    ELSE IF RankLess(c, Head(sorted)) THEN <<c>> \o sorted
    ELSE <<Head(sorted)>> \o RankInsert(Tail(sorted), c)

RECURSIVE RankLoop(_, _)
RankLoop(sorted, comments) ==
    IF comments = <<>> THEN sorted
    ELSE RankLoop(RankInsert(sorted, Head(comments)), Tail(comments))

rank_comments(comments) == RankLoop(<<>>, comments)

RECURSIVE TotalWeight(_)
TotalWeight(comments) ==
    IF comments = <<>> THEN 0
    ELSE SEVERITY_WEIGHTS(Head(comments).severity) + TotalWeight(Tail(comments))

\* mutant: the thresholds are compared with >=
compute_risk_score_inclusive(comments) ==
    LET total_weight == TotalWeight(comments)
    IN  IF total_weight >= RISK_THRESHOLDS.high THEN "critical"
        ELSE IF total_weight >= RISK_THRESHOLDS.medium THEN "high"
        ELSE IF total_weight >= RISK_THRESHOLDS.low THEN "medium"
        ELSE "low"

compute_risk_score(comments) ==
    LET total_weight == TotalWeight(comments)
    IN  IF total_weight > RISK_THRESHOLDS.high THEN "critical"
        ELSE IF total_weight > RISK_THRESHOLDS.medium THEN "high"
        ELSE IF total_weight > RISK_THRESHOLDS.low THEN "medium"
        ELSE "low"

\* mutant: the score is taken of the list as passed in
aggregate_comments_scores_input(comments) ==
    LET deduped == deduplicate_comments(comments)
        ranked == rank_comments(deduped)
    IN  [ranked |-> ranked, risk |-> compute_risk_score(comments)]

aggregate_comments(comments) ==
    LET deduped == deduplicate_comments(comments)
        ranked == rank_comments(deduped)
    IN  [ranked |-> ranked, risk |-> compute_risk_score(ranked)]

(***************************************************************************)
(* agents/base.py: the response of the upstream service as parsed JSON.    *)
(* A JSON value is a record tagged by `json`; an object's members are a    *)
(* function from member names to JSON values.                              *)
(***************************************************************************)
JStr(s) == [json |-> "str", v |-> s]
JNum(n) == [json |-> "num", v |-> n]
JNull == [json |-> "null"]
JList(items) == [json |-> "list", items |-> items]
JDict(members) == [json |-> "dict", members |-> members]
\* content that json.loads rejects
JInvalid == [json |-> "invalid"]

Has(d, k) == k \in DOMAIN d.members

\* dict.get(k, default) on a JSON object
Get(d, k, default) == IF Has(d, k) THEN d.members[k] ELSE default

\* ReviewComment(...) of one entry: <<comment>>, or <<>> when the entry is not a
\* dict or the constructor (float(), pydantic validation) raises
ParseItem(item, filename, agent) ==
    IF item.json # "dict" THEN <<>>
    ELSE
      LET line == Get(item, "line", JNull)
          severity == Get(item, "severity", JStr("suggestion"))
          title == Get(item, "title", JStr("Untitled finding"))
          body == Get(item, "body", JStr(""))
          suggestion == Get(item, "suggestion", JNull)
          confidence == Get(item, "confidence", JNum(7))
          \* line: int | None, a str of digits is converted
          line_value ==
            IF line.json = "num" THEN Some(line.v)
            ELSE IF line.json = "str" THEN StrToInt(line.v)
            ELSE None
          \* float(...) of a number or of a str
          confidence_value ==
            IF confidence.json = "num" THEN Some(confidence.v)
            ELSE IF confidence.json = "str" THEN StrToFloat(confidence.v)
            ELSE None
          valid ==
            /\ line.json \in {"null", "num", "str"}
            /\ line.json = "str" => line_value # None
            /\ severity.json = "str" /\ severity.v \in Severity
            /\ title.json = "str"
            /\ body.json = "str"
            /\ suggestion.json \in {"null", "str"}
            /\ confidence_value # None
            /\ confidence_value[1] >= 0 /\ confidence_value[1] <= 10
      IN  IF ~valid THEN <<>>
          ELSE << [file |-> filename,
                   line |-> line_value,
                   severity |-> severity.v,
                   category |-> AgentCategory(agent),
                   title |-> title.v,
                   body |-> body.v,
                   suggestion |-> IF suggestion.json = "null" THEN None ELSE Some(suggestion.v),
                   confidence |-> confidence_value[1],
                   agent_name |-> agent] >>

\* mutant: the first malformed entry ends the loop
RECURSIVE ParseItemsBreak(_, _, _)
ParseItemsBreak(findings, filename, agent) ==
    IF findings = <<>> THEN <<>>
    ELSE IF ParseItem(Head(findings), filename, agent) = <<>> THEN <<>>
    ELSE ParseItem(Head(findings), filename, agent)
           \o ParseItemsBreak(Tail(findings), filename, agent)

RECURSIVE ParseItems(_, _, _)
ParseItems(findings, filename, agent) ==
    IF findings = <<>> THEN <<>>
    ELSE ParseItem(Head(findings), filename, agent) \o ParseItems(Tail(findings), filename, agent)

\* data.get("findings", data.get("issues", data.get("comments", [])))
FindingsOf(data) ==
    Get(data, "findings", Get(data, "issues", Get(data, "comments", JList(<<>>))))

\* _parse_response: [raised |-> <<>>, comments |-> ...] on a normal return,
\* [raised |-> <<exception>>] when it raises
_parse_response(content, filename, agent) ==
    IF content.json = "invalid"
    THEN [raised |-> Some([type |-> "LLMResponseParseError",
                           msg |-> "Invalid JSON from " \o agent \o ": Expecting value"]),
          comments |-> <<>>]
    ELSE IF content.json \notin {"dict", "list"}
    THEN [raised |-> None, comments |-> <<>>]
    ELSE LET findings == IF content.json = "dict" THEN FindingsOf(content) ELSE content
         IN  IF findings.json \in {"str", "dict"}
             THEN \* `for item in findings` yields characters or member names:
                  \* no item is a dict
                  [raised |-> None, comments |-> <<>>]
             ELSE IF findings.json # "list"
             THEN \* `for item in findings` over a value that is not iterable
                  [raised |-> Some([type |-> "TypeError", msg |-> "object is not iterable"]),
                   comments |-> <<>>]
             ELSE [raised |-> None, comments |-> ParseItems(findings.items, filename, agent)]

\* str(e)
Str(e) == e.msg

\* AgentMetrics(...); duration and token counts are left out
AgentMetrics(agent_name, comments_produced, error) ==
    [agent_name |-> agent_name, files_analyzed |-> 1,
     comments_produced |-> comments_produced, error |-> error]

\* what a task hands to gather: the tuple a coroutine returned, or the exception it ended with
Returned(comments, metrics) == [tag |-> "tuple", comments |-> comments, metrics |-> metrics]
Raised(type) == [tag |-> "exception", type |-> type]

\* analyze, the `except Exception` branch
analyze_failed(agent, e) == Returned(<<>>, AgentMetrics(agent, 0, Some(Str(e))))

\* analyze, after the upstream call has returned `content`
analyze_response(agent, filename, content) ==
    LET parsed == _parse_response(content, filename, agent)
    IN  IF parsed.raised # None
        THEN analyze_failed(agent, parsed.raised[1])
        ELSE Returned(parsed.comments, AgentMetrics(agent, Len(parsed.comments), None))

\* mutant: the handler lets the TimeoutError of wait_for through
timeout_outcome_reraised(agent) == Raised("TimeoutError")

\* _run_agent_on_file, the `except asyncio.TimeoutError` branch
timeout_outcome(agent) ==
    Returned(<<>>, AgentMetrics(agent, 0, Some("Timeout after " \o timeout_per_agent \o "s")))

(***************************************************************************)
(* The inputs of a run: what build_prompt and the upstream service do.     *)
(***************************************************************************)
\* an exception a build_prompt implementation raises
BuildExceptions ==
    { [type |-> "AttributeError", msg |-> "object has no attribute language"] }

\* exceptions of LLMProvider.complete: transient (LLMRateLimitError) and fatal
\* (LLMError, here raised without a message: str(LLMError()) is "")
UpstreamExceptions ==
    { [type |-> "LLMRateLimitError", msg |-> "OpenAI rate limit: 429"],
      [type |-> "LLMError", msg |-> ""] }

Transient(e) == e.type = "LLMRateLimitError"

\* an exception that leaves a task (gather hands it over as a result)
EscapingExceptions == {"RuntimeError"}

\* what wait_for raises in _run_agent_on_file when the timeout elapses
TimeoutError == [type |-> "TimeoutError", msg |-> ""]

\* response contents of the upstream service
Contents ==
    { JInvalid,
      JDict([findings |->
          JList(<< JDict([title |-> JStr("Null check"), body |-> JStr("Desc"),
                          severity |-> JStr("warning"), confidence |-> JNum(8),
                          line |-> JNum(2)]),
                   JStr("not a dict") >>)]) }

\* PRDiff.files: file_0.py, file_1.py, ...
FileName(i) == "file_" \o IntStr(i - 1) \o ".py"

(***************************************************************************)
(* orchestrator/pipeline.py: the state of one run of run_review.           *)
(***************************************************************************)
VARIABLES
    files,          \* pr_diff.files, the file names
    agents,         \* the analyzers, by name
    max_concurrent, \* the size of the gate
    tasks,          \* the coroutines handed to gather, in submission order
    semaphore,      \* the value of the gate's asyncio.Semaphore
    pc,             \* per task: "waiting" (for the gate), "calling" (inside the gate,
                    \*   suspended in the upstream call under wait_for), "done"
    results,        \* per task: what gather receives, None while the task runs
    calls,          \* per task: the number of calls of llm.complete made
    cause,          \* per task: the exception the task caught (analyze's `except
                    \*   Exception`, or the TimeoutError of wait_for), None if none
    out_of_order,   \* some task completed before a task submitted earlier (history)
    main,           \* run_review itself: "gathering" (awaiting gather) or "returned"
    all_comments,   \* the list passed to aggregate_comments
    ret,            \* the ReviewResult returned
    analyzed,       \* per task: the number of invocations of agent.analyze
    logged,         \* the task_index of each "agent_task_failed" record logged
    aggregated,     \* the number of calls of aggregate_comments made (history)
    rl_semaphore    \* free concurrency slots of the TokenBucketRateLimiter

\* llm/rate_limiter.py: one TokenBucketRateLimiter and the callers that use it.
\* Time is counted in whole seconds and the buckets in sixtieths of a unit, so
\* that elapsed * rate / 60 is exact.
VARIABLES
    _rpm,               \* requests per minute, the capacity of the request bucket
    _tpm,               \* tokens per minute, the capacity of the token bucket
    rl_capacity,        \* the max_concurrent the limiter's semaphore was built with
    _request_tokens,    \* the request bucket, times 60
    _token_tokens,      \* the token bucket, times 60
    since_refill,       \* time.monotonic() - _last_refill, in seconds (60 stands
                        \*   for 60 or more: both buckets are full by then)
    rl_pc,              \* per caller: where it is in `async with limiter`
    estimated_tokens,   \* per caller: the estimated_tokens of its acquire call
    wake_in,            \* per caller: seconds left of its asyncio.sleep(wait_time)
    recent              \* the budget checks passed in the last 60 seconds (history):
                        \*   the age in seconds and the estimated_tokens of each

\* orchestrator/retry.py: one call of retry_with_backoff.
VARIABLES
    rt_max_retries,     \* the max_retries argument
    base_delay,         \* the base_delay argument, in seconds
    max_delay,          \* the max_delay argument, in seconds
    attempt,            \* the loop variable
    last_exception,     \* the local last_exception, None at first
    rt_pc,              \* "calling" (awaiting func), "sleeping", "returned", "raised"
    rt_log,             \* history: the calls of func and the sleeps, in order
    rt_outcome          \* the value returned or the exception raised, None before

\* orchestrator/aggregator.py: one call of a function of the Aggregator.
VARIABLES
    ag_comments,    \* the argument `comments`
    ag_pc,          \* "called" before the call, then the name of the function
                    \*   that was applied ("idle": no call)
    ag_out          \* what the function returned, None before

\* agents/base.py: one call of _parse_response.
VARIABLES
    pr_content,     \* the argument `content`, as the JSON value it holds
    pr_pc,          \* "called", "returned", "raised" ("idle": no call)
    pr_comments     \* the list returned

\* orchestrator/pipeline.py: _bounded_analysis and _run_agent_on_file with a
\* clock, time counted in ticks.
VARIABLES
    gt_timeout,     \* timeout_per_agent, in ticks
    gt_semaphore,   \* the value of the gate's asyncio.Semaphore
    gt_pc,          \* per task: "waiting" (for the gate), "running" (under
                    \*   wait_for), "done"
    gt_queued,      \* per task: the ticks it has waited for the gate (gt_timeout
                    \*   + 1 stands for that or more)
    gt_ran,         \* per task: the ticks since its wait_for started
    gt_outcome      \* per task: "none", "returned" (analyze returned in time) or
                    \*   "timeout" (the handler of asyncio.TimeoutError ran)

PipelineVars == <<files, agents, max_concurrent, tasks, semaphore, pc, results, calls,
                  cause, out_of_order, main, all_comments, ret, analyzed, logged, aggregated>>

LimiterVars == <<_rpm, _tpm, rl_capacity, _request_tokens, _token_tokens, since_refill,
                 rl_pc, estimated_tokens, wake_in, recent>>

RetryVars == <<rt_max_retries, base_delay, max_delay, attempt, last_exception,
               rt_pc, rt_log, rt_outcome>>

AggregatorVars == <<ag_comments, ag_pc, ag_out>>

ParserVars == <<pr_content, pr_pc, pr_comments>>

PureVars == <<AggregatorVars, ParserVars>>

TimerVars == <<gt_timeout, gt_semaphore, gt_pc, gt_queued, gt_ran, gt_outcome>>

vars == <<PipelineVars, rl_semaphore, LimiterVars, RetryVars, PureVars, TimerVars>>

\* no run with a clock is being followed
TimerIdle ==
    /\ gt_timeout = 0 /\ gt_semaphore = 0 /\ gt_pc = <<>> /\ gt_queued = <<>>
    /\ gt_ran = <<>> /\ gt_outcome = <<>>

\* no call of the Aggregator is being followed
AggregatorIdle ==
    /\ ag_comments = <<>> /\ ag_pc = "idle" /\ ag_out = None

\* no call of _parse_response is being followed
ParserIdle ==
    /\ pr_content = <<>> /\ pr_pc = "idle" /\ pr_comments = <<>>

\* no limiter is in use: run_review builds none
LimiterIdle ==
    /\ _rpm = 0 /\ _tpm = 0 /\ rl_capacity = rl_max_concurrent
    /\ _request_tokens = 0 /\ _token_tokens = 0 /\ since_refill = 0
    /\ rl_pc = <<>> /\ estimated_tokens = <<>> /\ wake_in = <<>> /\ recent = <<>>

\* no call of retry_with_backoff is in progress
RetryIdle ==
    /\ rt_max_retries = 0 /\ base_delay = 0 /\ max_delay = 0 /\ attempt = 0
    /\ last_exception = None /\ rt_pc = "idle" /\ rt_log = <<>> /\ rt_outcome = None

Tasks == 1..Len(tasks)

\* for file in pr_diff.files: for agent in agents: tasks.append(...)
RECURSIVE BuildRow(_, _)
BuildRow(file, as) ==
    IF as = <<>> THEN <<>>
    ELSE <<[agent |-> Head(as), file |-> file]>> \o BuildRow(file, Tail(as))

\* mutant: the analyzers are the outer loop
RECURSIVE BuildTasksAgentsOuter(_, _)
BuildTasksAgentsOuter(fs, as) ==
    IF as = <<>> THEN <<>>
    ELSE [i \in 1..Len(fs) |-> [agent |-> Head(as), file |-> fs[i]]]
           \o BuildTasksAgentsOuter(fs, Tail(as))

RECURSIVE BuildTasks(_, _)
BuildTasks(fs, as) ==
    IF fs = <<>> THEN <<>>
    ELSE BuildRow(Head(fs), as) \o BuildTasks(Tail(fs), as)

Init ==
    /\ \E n \in 0..MaxTasks : files = [i \in 1..n |-> FileName(i)]
    /\ \E m \in 0..Len(AGENT_CLASSES) : agents = SubSeq(AGENT_CLASSES, 1, m)
    /\ Len(files) * Len(agents) <= MaxTasks
    /\ max_concurrent \in 1..MaxGate
    /\ tasks = BuildTasks(files, agents)
    /\ semaphore = max_concurrent
    /\ pc = [t \in 1..Len(tasks) |-> "waiting"]
    /\ results = [t \in 1..Len(tasks) |-> None]
    /\ calls = [t \in 1..Len(tasks) |-> 0]
    /\ cause = [t \in 1..Len(tasks) |-> None]
    /\ out_of_order = FALSE
    /\ main = "gathering"
    /\ all_comments = <<>>
    /\ ret = None
    /\ analyzed = [t \in 1..Len(tasks) |-> 0]
    /\ logged = <<>>
    /\ aggregated = 0
    /\ rl_semaphore = rl_max_concurrent
    /\ LimiterIdle
    /\ RetryIdle
    /\ AggregatorIdle
    /\ ParserIdle
    /\ TimerIdle

Inputs == <<files, agents, max_concurrent, tasks>>

\* the task ends: its result goes to gather
Finish(t, result, e) ==
    /\ pc' = [pc EXCEPT ![t] = "done"]
    /\ results' = [results EXCEPT ![t] = Some(result)]
    /\ cause' = [cause EXCEPT ![t] = e]
    /\ out_of_order' = (out_of_order \/ \E u \in 1..(t - 1) : pc[u] # "done")

\* mutant: the task does not wait for the gate
StartUngated(t) ==
    /\ main = "gathering"
    /\ pc[t] = "waiting"
    /\ analyzed' = [analyzed EXCEPT ![t] = @ + 1]
    /\ pc' = [pc EXCEPT ![t] = "calling"]
    /\ semaphore' = semaphore - 1
    /\ calls' = [calls EXCEPT ![t] = @ + 1]
    /\ UNCHANGED <<results, cause, out_of_order>>
    /\ UNCHANGED <<Inputs, LimiterVars, RetryVars, PureVars, TimerVars, main, all_comments, ret, logged, aggregated, rl_semaphore>>

\* _bounded_analysis up to the first suspension: the gate is passed, analyze
\* builds the prompt and calls the upstream service; a build_prompt that raises
\* ends the task at once, and `async with` frees the slot again
Start(t) ==
    /\ main = "gathering"
    /\ pc[t] = "waiting"
    /\ semaphore > 0
    /\ analyzed' = [analyzed EXCEPT ![t] = @ + 1]
    /\ \/ /\ pc' = [pc EXCEPT ![t] = "calling"]
          /\ semaphore' = semaphore - 1
          /\ calls' = [calls EXCEPT ![t] = @ + 1]
          /\ UNCHANGED <<results, cause, out_of_order>>
       \/ \E e \in BuildExceptions :
          /\ Finish(t, analyze_failed(tasks[t].agent, e), Some(e))
          /\ UNCHANGED <<semaphore, calls>>
    /\ UNCHANGED <<Inputs, LimiterVars, RetryVars, PureVars, TimerVars, main, all_comments, ret, logged, aggregated, rl_semaphore>>

\* the upstream call returns a response: analyze parses it and returns
UpstreamReturns(t) ==
    /\ pc[t] = "calling"
    /\ \E content \in Contents :
         LET parsed == _parse_response(content, tasks[t].file, tasks[t].agent)
         IN  Finish(t, analyze_response(tasks[t].agent, tasks[t].file, content), parsed.raised)
    /\ semaphore' = semaphore + 1
    /\ UNCHANGED <<Inputs, LimiterVars, RetryVars, PureVars, TimerVars, calls, analyzed, main, all_comments, ret, logged, aggregated, rl_semaphore>>

\* the upstream call raises: analyze captures the exception
UpstreamRaises(t) ==
    /\ pc[t] = "calling"
    /\ \E e \in UpstreamExceptions :
         Finish(t, analyze_failed(tasks[t].agent, e), Some(e))
    /\ semaphore' = semaphore + 1
    /\ UNCHANGED <<Inputs, LimiterVars, RetryVars, PureVars, TimerVars, calls, analyzed, main, all_comments, ret, logged, aggregated, rl_semaphore>>

\* mutant: the timeout of one task cancels every task inside the gate
TimeoutCancelsSiblings(t) ==
    /\ pc[t] = "calling"
    /\ pc' = [u \in Tasks |-> IF pc[u] = "calling" THEN "done" ELSE pc[u]]
    /\ results' = [u \in Tasks |-> IF pc[u] = "calling"
                                    THEN Some(timeout_outcome(tasks[u].agent))
                                    ELSE results[u]]
    /\ cause' = [u \in Tasks |-> IF pc[u] = "calling" THEN Some(TimeoutError) ELSE cause[u]]
    /\ out_of_order' = (out_of_order \/ \E u \in 1..(t - 1) : pc[u] # "done")
    /\ semaphore' = semaphore + Cardinality({u \in Tasks : pc[u] = "calling"})
    /\ UNCHANGED <<Inputs, LimiterVars, RetryVars, PureVars, TimerVars, calls, analyzed, main, all_comments, ret, logged, aggregated, rl_semaphore>>

\* mutant: a task that times out keeps its slot of the gate
TimeoutKeepsSlot(t) ==
    /\ pc[t] = "calling"
    /\ Finish(t, timeout_outcome(tasks[t].agent), Some(TimeoutError))
    /\ UNCHANGED <<Inputs, LimiterVars, RetryVars, PureVars, TimerVars, semaphore, calls, analyzed, main, all_comments, ret, logged, aggregated, rl_semaphore>>

\* timeout_per_agent elapses first: wait_for cancels the analyze call of this task
Timeout(t) ==
    /\ pc[t] = "calling"
    /\ Finish(t, timeout_outcome(tasks[t].agent), Some(TimeoutError))
    /\ semaphore' = semaphore + 1
    /\ UNCHANGED <<Inputs, LimiterVars, RetryVars, PureVars, TimerVars, calls, analyzed, main, all_comments, ret, logged, aggregated, rl_semaphore>>

\* an exception leaves analyze and _run_agent_on_file (the handler of analyze
\* itself raises, or the awaited call ends cancelled)
Escapes(t) ==
    /\ pc[t] = "calling"
    /\ \E type \in EscapingExceptions : Finish(t, Raised(type), None)
    /\ semaphore' = semaphore + 1
    /\ UNCHANGED <<Inputs, LimiterVars, RetryVars, PureVars, TimerVars, calls, analyzed, main, all_comments, ret, logged, aggregated, rl_semaphore>>

\* mutant: the loop stops at the first task that ended with an exception
RECURSIVE CollectCommentsBreak(_)
CollectCommentsBreak(rs) ==
    IF rs = <<>> THEN <<>>
    ELSE IF Head(rs)[1].tag = "exception" THEN <<>>
    ELSE Head(rs)[1].comments \o CollectCommentsBreak(Tail(rs))

\* the loop over the results of gather
RECURSIVE CollectComments(_)
CollectComments(rs) ==
    IF rs = <<>> THEN <<>>
    ELSE IF Head(rs)[1].tag = "exception" THEN CollectComments(Tail(rs))
    ELSE Head(rs)[1].comments \o CollectComments(Tail(rs))

\* logger.error("agent_task_failed", task_index=i, ...) for each exception
RECURSIVE CollectLogged(_, _)
CollectLogged(rs, i) ==
    IF rs = <<>> THEN <<>>
    ELSE IF Head(rs)[1].tag = "exception" THEN <<i>> \o CollectLogged(Tail(rs), i + 1)
    ELSE CollectLogged(Tail(rs), i + 1)

RECURSIVE CollectMetrics(_)
CollectMetrics(rs) ==
    IF rs = <<>> THEN <<>>
    ELSE IF Head(rs)[1].tag = "exception" THEN CollectMetrics(Tail(rs))
    ELSE <<Head(rs)[1].metrics>> \o CollectMetrics(Tail(rs))

\* mutant: gather without return_exceptions, the first exception leaves run_review
CollectAbortsOnException ==
    /\ main = "gathering"
    /\ \A t \in Tasks : pc[t] = "done"
    /\ IF \E t \in Tasks : results[t][1].tag = "exception"
       THEN /\ all_comments' = <<>>
            /\ ret' = None
            /\ logged' = <<>>
            /\ aggregated' = aggregated
       ELSE LET cs == CollectComments(results)
                agg == aggregate_comments(cs)
            IN  /\ all_comments' = cs
                /\ ret' = Some([comments |-> agg.ranked, risk_score |-> agg.risk,
                                agent_metrics |-> CollectMetrics(results)])
                /\ logged' = <<>>
                /\ aggregated' = aggregated + 1
    /\ main' = "returned"
    /\ UNCHANGED <<Inputs, LimiterVars, RetryVars, PureVars, TimerVars, semaphore, pc, results, calls, analyzed,
                   cause, out_of_order, rl_semaphore>>

IsOutcome(r) == r # None

\* mutant: run_review goes on at the first completed task
CollectEarly ==
    /\ main = "gathering"
    /\ \/ \A t \in Tasks : pc[t] = "done"
       \/ \E t \in Tasks : pc[t] = "done"
    /\ LET rs == SelectSeq(results, IsOutcome)
           cs == CollectComments(rs)
           agg == aggregate_comments(cs)
       IN  /\ all_comments' = cs
           /\ ret' = Some([comments |-> agg.ranked, risk_score |-> agg.risk,
                           agent_metrics |-> CollectMetrics(rs)])
           /\ aggregated' = aggregated + 1
           /\ logged' = CollectLogged(rs, 0)
    /\ main' = "returned"
    /\ UNCHANGED <<Inputs, LimiterVars, RetryVars, PureVars, TimerVars, semaphore, pc, results, calls, analyzed, cause, out_of_order, rl_semaphore>>

Reverse(l) == [i \in 1..Len(l) |-> l[Len(l) + 1 - i]]

\* mutant: the results are taken as the tasks complete (asyncio.as_completed),
\* here last submitted first when tasks completed out of submission order
CollectAsCompleted ==
    /\ main = "gathering"
    /\ \A t \in Tasks : pc[t] = "done"
    /\ LET rs == IF out_of_order THEN Reverse(results) ELSE results
           cs == CollectComments(rs)
           agg == aggregate_comments(cs)
       IN  /\ all_comments' = cs
           /\ ret' = Some([comments |-> agg.ranked, risk_score |-> agg.risk,
                           agent_metrics |-> CollectMetrics(rs)])
           /\ aggregated' = aggregated + 1
    /\ logged' = CollectLogged(results, 0)
    /\ main' = "returned"
    /\ UNCHANGED <<Inputs, LimiterVars, RetryVars, PureVars, TimerVars, semaphore, pc, results, calls, analyzed, cause, out_of_order, rl_semaphore>>

\* gather returns once every task is done; run_review collects, aggregates, returns
Collect ==
    /\ main = "gathering"
    /\ \A t \in Tasks : pc[t] = "done"
    /\ LET cs == CollectComments(results)
           agg == aggregate_comments(cs)
       IN  /\ all_comments' = cs
           /\ ret' = Some([comments |-> agg.ranked, risk_score |-> agg.risk,
                           agent_metrics |-> CollectMetrics(results)])
           /\ aggregated' = aggregated + 1
    /\ logged' = CollectLogged(results, 0)
    /\ main' = "returned"
    /\ UNCHANGED <<Inputs, LimiterVars, RetryVars, PureVars, TimerVars, semaphore, pc, results, calls, analyzed, cause, out_of_order, rl_semaphore>>

Next ==
    \/ \E t \in Tasks : Start(t)
    \/ \E t \in Tasks : UpstreamReturns(t)
    \/ \E t \in Tasks : UpstreamRaises(t)
    \/ \E t \in Tasks : Timeout(t)
    \/ \E t \in Tasks : Escapes(t)
    \/ Collect

Spec == Init /\ [][Next]_vars

\* the step of Collect, told by its guard and its effect on main
GatherReturns ==
    /\ main = "gathering"
    /\ \A t \in Tasks : pc[t] = "done"
    /\ main' = "returned"

\* The event loop runs every task that is ready, run_review itself included,
\* and the timer of wait_for fires; the upstream service owes no answer.
FairSpec ==
    /\ Spec
    /\ WF_vars(\E t \in Tasks : Start(t))
    /\ WF_vars(\E t \in Tasks : Timeout(t))
    /\ WF_main(GatherReturns)

(***************************************************************************)
(* Properties of the pipeline.                                             *)
(***************************************************************************)
Range(s) == {s[i] : i \in DOMAIN s}

\* `sub in s` on strings
Contains(s, sub) ==
    \E i \in 1..(Len(s) - Len(sub) + 1) : SubSeq(s, i, i + Len(sub) - 1) = sub

\* a metrics record whose error is a non-empty string
HasError(m) == m.error # None /\ m.error[1] # ""

Done(t) == results[t] # None
Result(t) == results[t][1]
ReturnedTuple(t) == Done(t) /\ Result(t).tag = "tuple"
TimedOut(t) == cause[t] = Some(TimeoutError)
\* the exception was caught by the `except Exception` of analyze
CaughtByAnalyze(t) == cause[t] # None /\ cause[t] # Some(TimeoutError)
\* the four kinds of contained failure: transient, fatal, malformed response, timeout
ContainedFailure(t) ==
    /\ cause[t] # None
    /\ cause[t][1].type \in {"LLMRateLimitError", "LLMError", "LLMResponseParseError", "TimeoutError"}
InGate == {t \in Tasks : pc[t] = "calling"}

\* C1: the agent_metrics of the returned result has one entry per dispatched
\* (analyzer, file) task, N x M in all, whatever the outcome of each task,
\* an exception that escapes the task included.
C1_OneMetricsPerTask ==
    main = "returned" => Len(ret[1].agent_metrics) = Len(files) * Len(agents)

\* C2: a task that fails with a transient or fatal upstream error, a malformed
\* response or a timeout hands gather a normal result, and a run in which every
\* task failed so returns zero findings, risk low and one telemetry record with a
\* non-empty error per task.
C2_FullyFailedBatch ==
    /\ \A t \in Tasks : ContainedFailure(t) => ReturnedTuple(t)
    /\ (main = "returned" /\ Tasks # {} /\ \A t \in Tasks : ContainedFailure(t)) =>
          /\ ret[1].comments = <<>>
          /\ ret[1].risk_score = "low"
          /\ Len(ret[1].agent_metrics) = Len(tasks)
          /\ \A i \in 1..Len(ret[1].agent_metrics) : HasError(ret[1].agent_metrics[i])

\* C3: every exception raised in build_prompt, in the upstream call or in the
\* parsing of the response makes analyze return zero findings and a metrics
\* record with a non-empty error; a record with an error never has findings.
C3_AnalyzeContainsErrors ==
    /\ \A t \in Tasks : CaughtByAnalyze(t) =>
          /\ ReturnedTuple(t)
          /\ Result(t).comments = <<>>
          /\ HasError(Result(t).metrics)
    /\ \A t \in Tasks : (ReturnedTuple(t) /\ Result(t).metrics.error # None) =>
          Result(t).comments = <<>>

\* C4: a task whose analyzer call is still running when timeout_per_agent
\* elapses hands gather a normal result with zero findings and an error that
\* names the timeout, and the returned result holds exactly one such record
\* for each task that timed out.
C4_TimeoutOutcome ==
    /\ \A t \in Tasks : TimedOut(t) =>
          /\ ReturnedTuple(t)
          /\ Result(t).comments = <<>>
          /\ HasError(Result(t).metrics)
          /\ Contains(Result(t).metrics.error[1], "Timeout")
    /\ main = "returned" =>
          Cardinality({i \in 1..Len(ret[1].agent_metrics) :
                          /\ ret[1].agent_metrics[i].error # None
                          /\ Contains(ret[1].agent_metrics[i].error[1], "Timeout")})
            = Cardinality({t \in Tasks : TimedOut(t)})

C4_Witness ==
    /\ main = "returned"
    /\ \E t \in Tasks : TimedOut(t) /\ calls[t] = 1

\* the step in which task t times out leaves every other task as it is
TimeoutIsLocal ==
    \A t \in Tasks : (~TimedOut(t) /\ TimedOut(t)') =>
        \A u \in Tasks \ {t} :
            pc'[u] = pc[u] /\ results'[u] = results[u] /\ cause'[u] = cause[u]

\* C5 as stated: a timeout cancels the analyzer call of its own task only, and
\* every finding of a task that succeeds is in the comments of the returned result.
C5_SiblingsUntouched ==
    /\ [][TimeoutIsLocal]_vars
    /\ [](main = "returned" =>
            \A u \in Tasks : ReturnedTuple(u) =>
                \A c \in Range(Result(u).comments) : c \in Range(ret[1].comments))

\* C5 as amended: a timeout cancels the analyzer call of its own task only, and
\* every finding of a task that succeeds is in the comments of the returned
\* result or shares its dedup key with a finding that is.
C5_SiblingsUntouchedUpToDedup ==
    /\ [][TimeoutIsLocal]_vars
    /\ [](main = "returned" =>
            \A u \in Tasks : ReturnedTuple(u) =>
                \A c \in Range(Result(u).comments) :
                    \E d \in Range(ret[1].comments) : DedupKey(d) = DedupKey(c))

C5_Witness ==
    /\ main = "returned"
    /\ \E t, u \in Tasks :
          /\ TimedOut(t)
          /\ ReturnedTuple(u)
          /\ \E c \in Range(Result(u).comments) : c \in Range(ret[1].comments)

\* C6: under FairSpec run_review eventually returns, the upstream service
\* answering or not: by then every task has been let through the gate and has
\* ended (by result or by timeout), and every slot of the gate is free.
C6_RunReturns ==
    <>(/\ main = "returned"
       /\ \A t \in Tasks : pc[t] = "done"
       /\ semaphore = max_concurrent)

\* every task timed out, and there were more tasks than slots
C6_Witness ==
    /\ main = "returned"
    /\ Len(tasks) > max_concurrent
    /\ \A t \in Tasks : TimedOut(t)

\* C7: at most max_concurrent tasks are inside the gate, and the semaphore
\* counts the free slots.
C7_GateBound ==
    /\ Cardinality(InGate) <= max_concurrent
    /\ semaphore = max_concurrent - Cardinality(InGate)

C7_Witness ==
    /\ Cardinality(InGate) = max_concurrent
    /\ \E t \in Tasks : pc[t] = "waiting"

\* C8: every upstream call in flight holds a concurrency slot of the Rate
\* Limiter, so the calls in flight are at most the smaller of the gate size
\* and the limiter's cap.
C8_CallsInsideLimiter ==
    /\ Cardinality(InGate) <= rl_max_concurrent - rl_semaphore
    /\ Cardinality(InGate) <= max_concurrent
    /\ Cardinality(InGate) <= rl_max_concurrent

\* C9: a task whose error is a transient upstream error has called the
\* upstream service max_retries + 1 times; a task whose error is a fatal
\* upstream error has called it once.
C9_TransientRetried ==
    \A t \in Tasks : cause[t] # None =>
        /\ Transient(cause[t][1]) => calls[t] = max_retries + 1
        /\ cause[t][1].type = "LLMError" => calls[t] = 1

\* the findings the tasks produced, by position: <<task, index>>
Produced ==
    UNION { {<<t, i>> : i \in 1..Len(Result(t).comments)} : t \in {u \in Tasks : ReturnedTuple(u)} }
At(p) == Result(p[1]).comments[p[2]]
\* p is submitted before q
Before(p, q) == p[1] < q[1] \/ (p[1] = q[1] /\ p[2] < q[2])
\* p has the highest confidence of its key, and is the first submitted of those
Wins(p) ==
    \A q \in Produced : DedupKey(At(q)) = DedupKey(At(p)) =>
        /\ At(q).confidence <= At(p).confidence
        /\ (At(q).confidence = At(p).confidence => ~Before(q, p))

\* C10: the set of findings passed on is fixed by the results of the tasks and
\* the order of submission alone: what goes to the Aggregator is the union of
\* the tasks' findings, and what goes to ranking is, for each dedup key, the
\* first submitted finding of highest confidence.
C10_OrderIndependent ==
    main = "returned" =>
        /\ Range(all_comments) = {At(p) : p \in Produced}
        /\ Range(ret[1].comments) = {At(p) : p \in {q \in Produced : Wins(q)}}

\* tasks completed out of submission order and two of them have findings
C10_Witness ==
    /\ main = "returned"
    /\ out_of_order
    /\ Cardinality(Range(all_comments)) >= 2
    /\ Cardinality(Range(ret[1].comments)) < Cardinality(Range(all_comments))

\* the task ended with an exception that left _run_agent_on_file
Escaped(t) == Done(t) /\ Result(t).tag = "exception"

PlaceOf(p) == Cardinality({q \in Produced : Before(q, p)}) + 1

\* what holds of the result once run_review has returned
AggregatedAll ==
    /\ Len(all_comments) = Cardinality(Produced)
    /\ \A p \in Produced : all_comments[PlaceOf(p)] = At(p)
    /\ \A c \in Range(ret[1].comments) : \E p \in Produced : At(p) = c
    /\ \A p \in Produced :
          \/ At(p) \in Range(ret[1].comments)
          \/ \E c \in Range(ret[1].comments) : DedupKey(c) = DedupKey(At(p))

\* C29: run_review calls aggregate_comments exactly once, in a step taken only
\* when every task has produced its outcome, on the concatenation of the
\* findings of all tasks in submission order: every finding of the result was
\* produced by a task, and every finding a task produced is in the result or
\* has the dedup key of a finding in the result.
C29_AggregatesOnceAtEnd ==
    /\ [](/\ aggregated <= 1
          /\ main = "returned" <=> aggregated = 1
          /\ main = "returned" => AggregatedAll)
    /\ [][aggregated' # aggregated =>
             /\ \A t \in Tasks : Done(t)
             /\ main' = "returned"]_vars

\* two findings were produced and one of them was merged into the other
C29_Witness ==
    /\ aggregated = 1
    /\ Len(all_comments) >= 2
    /\ Len(ret[1].comments) < Len(all_comments)
    /\ \E p \in Produced : At(p) \notin Range(ret[1].comments)

SeverityRank == [critical |-> 0, warning |-> 1, suggestion |-> 2, nitpick |-> 3]

InRankOrder(l) ==
    \A i \in 1..(Len(l) - 1) :
        /\ SeverityRank[l[i].severity] <= SeverityRank[l[i + 1].severity]
        /\ l[i].severity = l[i + 1].severity => l[i].confidence >= l[i + 1].confidence

\* the tasks that returned a tuple
Returners == {t \in Tasks : ReturnedTuple(t)}

\* the first produced finding, in submission order, that has the key of c
FirstOfKey(c) ==
    CHOOSE p \in Produced :
        /\ DedupKey(At(p)) = DedupKey(c)
        /\ \A q \in Produced : DedupKey(At(q)) = DedupKey(c) => ~Before(q, p)

\* C35: the output of run_review is fixed by the results of the tasks and the
\* order of submission, whatever the order of completion: agent_metrics holds
\* the telemetry of the tasks in submission order, the finding kept for a key
\* is the first submitted of highest confidence, and the comments are in rank
\* order with equal ranks in the submission order of their keys.
C35_OutputIndependentOfTiming ==
    main = "returned" =>
        /\ Len(ret[1].agent_metrics) = Cardinality(Returners)
        /\ \A t \in Returners :
              ret[1].agent_metrics[Cardinality({u \in Returners : u <= t})] = Result(t).metrics
        /\ Len(ret[1].comments) = Cardinality({DedupKey(At(p)) : p \in Produced})
        /\ \A i \in DOMAIN ret[1].comments :
              \E p \in Produced : Wins(p) /\ At(p) = ret[1].comments[i]
        /\ InRankOrder(ret[1].comments)
        /\ \A i, j \in DOMAIN ret[1].comments :
              (/\ i < j
               /\ ret[1].comments[i].severity = ret[1].comments[j].severity
               /\ ret[1].comments[i].confidence = ret[1].comments[j].confidence) =>
                  Before(FirstOfKey(ret[1].comments[i]), FirstOfKey(ret[1].comments[j]))

\* tasks completed out of submission order; two analyzers reported the same
\* finding of one file, and two files have findings
C35_Witness ==
    /\ main = "returned"
    /\ out_of_order
    /\ Len(ret[1].comments) >= 2
    /\ Len(ret[1].comments) < Len(all_comments)
    /\ Len(ret[1].agent_metrics) >= 3

\* C12: for every finding in the comments of the returned result, exactly one
\* entry of agent_metrics carries the finding's agent_name, for every number of
\* files and analyzers.
C12_OneMetricsPerFinding ==
    main = "returned" =>
        \A c \in Range(ret[1].comments) :
            Cardinality({i \in 1..Len(ret[1].agent_metrics) :
                            ret[1].agent_metrics[i].agent_name = c.agent_name}) = 1

\* C13: there is one task for each (file, analyzer) pair, submitted with the
\* files as the outer loop and the analyzers as the inner loop; analyze is
\* invoked at most once per task and exactly once by the time run_review
\* returns; with no file there is no task, and the result has zero findings,
\* risk low and no task outcome.
C13_CrossProduct ==
    /\ Len(tasks) = Len(files) * Len(agents)
    /\ \A i \in 1..Len(files) : \A j \in 1..Len(agents) :
          tasks[(i - 1) * Len(agents) + j] = [agent |-> agents[j], file |-> files[i]]
    /\ \A t \in Tasks : analyzed[t] <= 1
    /\ main = "returned" => \A t \in Tasks : analyzed[t] = 1
    /\ (main = "returned" /\ files = <<>>) =>
          /\ tasks = <<>>
          /\ \A t \in Tasks : analyzed[t] = 0
          /\ ret[1].comments = <<>>
          /\ ret[1].risk_score = "low"
          /\ ret[1].agent_metrics = <<>>

\* two files and two analyzers, all four tasks analyzed
C13_Witness ==
    /\ main = "returned"
    /\ Len(files) >= 2
    /\ Len(agents) >= 2
    /\ \A t \in Tasks : analyzed[t] = 1

(***************************************************************************)
(* llm/rate_limiter.py: TokenBucketRateLimiter used by concurrent callers, *)
(* each in `async with limiter` (acquire on entry, release on exit).       *)
(***************************************************************************)
\* the number of callers
MaxCallers == 2
\* the values of rpm, of tpm (tpm / 60 is a divisor in acquire) and of
\* estimated_tokens
Rpms == {0, 1, 2}
Tpms == {1, 2}
Estimates == {1, 2}

\* elapsed * rate / 60: the seconds of a minute
SecondsPerMinute == 60

\* how far the clock moves between two steps of the callers, in seconds
TickSteps == {30}

Min(a, b) == IF a <= b THEN a ELSE b
Max(a, b) == IF a >= b THEN a ELSE b

Callers == DOMAIN rl_pc

\* no run of run_review is in progress
PipelineIdle ==
    /\ files = <<>> /\ agents = <<>> /\ max_concurrent = 1 /\ tasks = <<>>
    /\ semaphore = 1 /\ pc = <<>> /\ results = <<>> /\ calls = <<>> /\ cause = <<>>
    /\ out_of_order = FALSE /\ main = "idle" /\ all_comments = <<>> /\ ret = None
    /\ analyzed = <<>> /\ logged = <<>> /\ aggregated = 0

\* __init__: both buckets start full
LimiterInit ==
    /\ PipelineIdle
    /\ RetryIdle
    /\ AggregatorIdle
    /\ ParserIdle
    /\ TimerIdle
    /\ _rpm \in Rpms
    /\ _tpm \in Tpms
    /\ rl_capacity \in 1..MaxGate
    /\ rl_semaphore = rl_capacity
    /\ _request_tokens = _rpm * SecondsPerMinute
    /\ _token_tokens = _tpm * SecondsPerMinute
    /\ since_refill = 0
    /\ \E n \in 1..MaxCallers :
          /\ rl_pc = [c \in 1..n |-> "idle"]
          \* callers are alike: take them in the order of their estimates
          /\ estimated_tokens \in [1..n -> Estimates]
          /\ \A c \in 1..(n - 1) : estimated_tokens[c] <= estimated_tokens[c + 1]
          /\ wake_in = [c \in 1..n |-> 0]
    /\ recent = <<>>

\* _refill, one bucket: min(rate, bucket + elapsed * rate / 60), times 60
\* mutant: the refill is not capped at the capacity
RefilledUncapped(bucket, rate) == bucket + since_refill * rate

Refilled(bucket, rate) ==
    Min(rate * SecondsPerMinute, bucket + since_refill * rate)

\* wait_time = max(0.1, min(5.0, estimated_tokens / (tpm / 60))), in units of
\* 1 / (10 * tpm) seconds
wait_time(estimated, tpm) ==
    Max(tpm, Min(50 * tpm, 10 * SecondsPerMinute * estimated))

\* the whole seconds after which asyncio.sleep(wait_time) has returned
SleepSeconds(estimated, tpm) ==
    (wait_time(estimated, tpm) + 10 * tpm - 1) \div (10 * tpm)

\* the caller is at the top of the loop of acquire
AtLoopTop(c) ==
    \/ rl_pc[c] = "idle"
    \/ rl_pc[c] = "sleeping" /\ wake_in[c] = 0

\* what one pass of the loop of acquire does once the budget check came out as
\* `passes`: deduct and go for the semaphore, or sleep
AcquireStep(c, r, k, passes) ==
    /\ since_refill' = 0
    /\ IF passes
       THEN /\ _request_tokens' = r - 1 * SecondsPerMinute
            /\ _token_tokens' = k - estimated_tokens[c] * SecondsPerMinute
            /\ recent' = Append(recent, [age |-> 0, tokens |-> estimated_tokens[c]])
            /\ IF rl_semaphore > 0
               THEN /\ rl_semaphore' = rl_semaphore - 1
                    /\ rl_pc' = [rl_pc EXCEPT ![c] = "holding"]
               ELSE /\ rl_pc' = [rl_pc EXCEPT ![c] = "waiting_slot"]
                    /\ UNCHANGED rl_semaphore
            /\ UNCHANGED wake_in
       ELSE /\ _request_tokens' = r
            /\ _token_tokens' = k
            /\ rl_pc' = [rl_pc EXCEPT ![c] = "sleeping"]
            /\ wake_in' = [wake_in EXCEPT ![c] = SleepSeconds(estimated_tokens[c], _tpm)]
            /\ UNCHANGED <<recent, rl_semaphore>>
    /\ UNCHANGED <<PipelineVars, RetryVars, PureVars, TimerVars, _rpm, _tpm, rl_capacity, estimated_tokens>>

\* mutant: the budget check passes when either bucket suffices
AcquireEitherBucket(c) ==
    /\ AtLoopTop(c)
    /\ LET r == Refilled(_request_tokens, _rpm)
           k == Refilled(_token_tokens, _tpm)
       IN  AcquireStep(c, r, k,
               r >= 1 * SecondsPerMinute \/ k >= estimated_tokens[c] * SecondsPerMinute)

\* acquire, one pass of `while True` up to the next suspension: _refill, the
\* budget check, and either the deduction followed by _semaphore.acquire()
\* (which returns at once when a slot is free) or asyncio.sleep(wait_time)
Acquire(c) ==
    /\ AtLoopTop(c)
    /\ LET r == Refilled(_request_tokens, _rpm)
           k == Refilled(_token_tokens, _tpm)
       IN  AcquireStep(c, r, k,
               r >= 1 * SecondsPerMinute /\ k >= estimated_tokens[c] * SecondsPerMinute)

\* mutant: the waiter is let in without a free slot
SlotAcquiredUncounted(c) ==
    /\ rl_pc[c] = "waiting_slot"
    /\ rl_semaphore' = rl_semaphore
    /\ rl_pc' = [rl_pc EXCEPT ![c] = "holding"]
    /\ UNCHANGED <<PipelineVars, RetryVars, PureVars, TimerVars, _rpm, _tpm, rl_capacity, _request_tokens,
                   _token_tokens, since_refill, estimated_tokens, wake_in, recent>>

\* `await self._semaphore.acquire()` of a waiting caller returns
SlotAcquired(c) ==
    /\ rl_pc[c] = "waiting_slot"
    /\ rl_semaphore > 0
    /\ rl_semaphore' = rl_semaphore - 1
    /\ rl_pc' = [rl_pc EXCEPT ![c] = "holding"]
    /\ UNCHANGED <<PipelineVars, RetryVars, PureVars, TimerVars, _rpm, _tpm, rl_capacity, _request_tokens,
                   _token_tokens, since_refill, estimated_tokens, wake_in, recent>>

\* the ways the body of `async with limiter` ends
ExitPaths == {"returned", "raised", "cancelled"}

\* mutant: release() follows the body without a finally: only a normal return releases
BodyExitsReleaseOnReturn(c) ==
    /\ rl_pc[c] = "holding"
    /\ \E path \in ExitPaths :
          /\ rl_pc' = [rl_pc EXCEPT ![c] = path]
          /\ rl_semaphore' = IF path = "returned" THEN rl_semaphore + 1 ELSE rl_semaphore
    /\ UNCHANGED <<PipelineVars, RetryVars, PureVars, TimerVars, _rpm, _tpm, rl_capacity, _request_tokens,
                   _token_tokens, since_refill, estimated_tokens, wake_in, recent>>

\* the body ends, __aexit__ runs on every path and calls release()
BodyExits(c) ==
    /\ rl_pc[c] = "holding"
    /\ \E path \in ExitPaths : rl_pc' = [rl_pc EXCEPT ![c] = path]
    /\ rl_semaphore' = rl_semaphore + 1
    /\ UNCHANGED <<PipelineVars, RetryVars, PureVars, TimerVars, _rpm, _tpm, rl_capacity, _request_tokens,
                   _token_tokens, since_refill, estimated_tokens, wake_in, recent>>

\* mutant: a caller cancelled while it waits for a slot gets its budget back
CancelledInAcquireRefunds(c) ==
    /\ rl_pc[c] \in {"sleeping", "waiting_slot"}
    /\ rl_pc' = [rl_pc EXCEPT ![c] = "cancelled_early"]
    /\ IF rl_pc[c] = "waiting_slot"
       THEN /\ _request_tokens' = _request_tokens + 1 * SecondsPerMinute
            /\ _token_tokens' = _token_tokens + estimated_tokens[c] * SecondsPerMinute
       ELSE UNCHANGED <<_request_tokens, _token_tokens>>
    /\ UNCHANGED <<PipelineVars, RetryVars, PureVars, TimerVars, _rpm, _tpm, rl_capacity,
                   since_refill, rl_semaphore, estimated_tokens, wake_in, recent>>

\* the caller is cancelled while acquire is suspended (in asyncio.sleep or in
\* _semaphore.acquire()): CancelledError leaves __aenter__, __aexit__ does not run
CancelledInAcquire(c) ==
    /\ rl_pc[c] \in {"sleeping", "waiting_slot"}
    /\ rl_pc' = [rl_pc EXCEPT ![c] = "cancelled_early"]
    /\ UNCHANGED <<PipelineVars, RetryVars, PureVars, TimerVars, _rpm, _tpm, rl_capacity, _request_tokens,
                   _token_tokens, since_refill, rl_semaphore, estimated_tokens, wake_in,
                   recent>>

\* the entries of `recent` d seconds later, those 60 seconds old dropped
RECURSIVE Aged(_, _)
Aged(passes, d) ==
    IF passes = <<>> THEN <<>>
    ELSE IF Head(passes).age + d >= SecondsPerMinute THEN Aged(Tail(passes), d)
    ELSE <<[Head(passes) EXCEPT !.age = @ + d]>> \o Aged(Tail(passes), d)

\* time.monotonic() moves on by d seconds
Tick(d) ==
    /\ since_refill' = Min(SecondsPerMinute, since_refill + d)
    /\ wake_in' = [c \in Callers |-> Max(0, wake_in[c] - d)]
    /\ recent' = Aged(recent, d)
    /\ UNCHANGED <<PipelineVars, RetryVars, PureVars, TimerVars, _rpm, _tpm, rl_capacity, _request_tokens,
                   _token_tokens, rl_semaphore, rl_pc, estimated_tokens>>

LimiterNext ==
    \/ \E c \in Callers : Acquire(c)
    \/ \E c \in Callers : SlotAcquired(c)
    \/ \E c \in Callers : BodyExits(c)
    \/ \E c \in Callers : CancelledInAcquire(c)
    \/ \E d \in TickSteps : Tick(d)

LimiterSpec == LimiterInit /\ [][LimiterNext]_vars

\* The event loop runs every caller that is ready, time moves on, and the body
\* of every `async with limiter` ends; nothing obliges anyone to cancel a caller.
LimiterFairSpec ==
    /\ LimiterSpec
    /\ WF_vars(\E d \in TickSteps : Tick(d))
    /\ \A c \in 1..MaxCallers : WF_vars(c \in Callers /\ Acquire(c))
    /\ \A c \in 1..MaxCallers : WF_vars(c \in Callers /\ SlotAcquired(c))
    /\ \A c \in 1..MaxCallers : WF_vars(c \in Callers /\ BodyExits(c))

(***************************************************************************)
(* Properties of the Rate Limiter.                                         *)
(***************************************************************************)
Holding == {c \in Callers : rl_pc[c] = "holding"}
Finished == ExitPaths \cup {"cancelled_early"}

\* the step in which caller c passes the budget check
Passes(c) ==
    /\ rl_pc[c] \in {"idle", "sleeping"}
    /\ rl_pc'[c] \in {"waiting_slot", "holding"}

\* the step in which caller c runs the budget check and does not pass
Fails(c) ==
    /\ AtLoopTop(c)
    /\ ~Passes(c)
    /\ rl_pc'[c] # "cancelled_early"
    /\ <<rl_pc'[c], wake_in'[c]>> # <<rl_pc[c], wake_in[c]>>

RECURSIVE SumTokens(_)
SumTokens(passes) ==
    IF passes = <<>> THEN 0 ELSE Head(passes).tokens + SumTokens(Tail(passes))

\* C15: in every window of 60 seconds at most rpm acquire calls pass the budget
\* check, and their estimated_tokens sum to at most tpm.
C15_WindowLimit ==
    /\ Len(recent) <= _rpm
    /\ SumTokens(recent) <= _tpm

\* the callers that have the budget to pass at all
Budgeted == IF _rpm >= 1 THEN {c \in Callers : estimated_tokens[c] <= _tpm} ELSE {}

\* the callers that hold a slot never outnumber the slots, and the step in
\* which a caller leaves the body frees one slot
SlotsPaired ==
    /\ [](Cardinality(Holding) <= rl_capacity)
    /\ [][\A c \in Callers : (rl_pc[c] = "holding" /\ rl_pc'[c] # "holding") =>
            rl_semaphore' = rl_semaphore + 1]_vars

C17_ScopedRelease ==
    /\ rl_semaphore = rl_capacity - Cardinality(Holding)
    /\ (\A c \in Callers : rl_pc[c] \in Finished) => rl_semaphore = rl_capacity

\* every caller is done: one was cancelled inside acquire and one inside the body
C17_Witness ==
    /\ \A c \in Callers : rl_pc[c] \in Finished
    /\ \E c \in Callers : rl_pc[c] = "cancelled_early"
    /\ \E c \in Callers : rl_pc[c] = "cancelled"

(***************************************************************************)
(* orchestrator/retry.py: one call of retry_with_backoff(func, ...).       *)
(***************************************************************************)
\* the largest max_retries argument
MaxRetryArg == 3

\* the base_delay and max_delay arguments, in seconds
BaseDelays == {1, 4}
MaxDelays == {3, 6, 30}

\* retryable_exceptions
retryable_exceptions == {"LLMRateLimitError"}

\* what call number n of func raises when it fails: an exception of the
\* retryable set or another one
FuncExceptions(n) ==
    { [type |-> "LLMRateLimitError", msg |-> "rate limit", call |-> n],
      [type |-> "ValueError", msg |-> "not retryable", call |-> n] }

\* the entries of rt_log
CallEntry == [op |-> "call"]
OkEntry == [op |-> "ok"]
FailEntry(e) == [op |-> "fail", e |-> e]
SleepEntry(delay) == [op |-> "sleep", delay |-> delay]

RECURSIVE Pow2(_)
Pow2(n) == IF n = 0 THEN 1 ELSE 2 * Pow2(n - 1)

\* mutant: the delay is not capped
DelayUncapped(a) == base_delay * Pow2(a)

\* delay = min(base_delay * (2 ** attempt), max_delay)
Delay(a) == Min(base_delay * Pow2(a), max_delay)

\* mutant: except Exception
IsRetryableAny(e) == e.type = e.type

\* `except retryable_exceptions as e` catches e
IsRetryable(e) == e.type \in retryable_exceptions

\* mutant: the test for the last attempt is off by one
ExhaustedLate(a) == a > rt_max_retries

\* if attempt >= max_retries
Exhausted(a) == a >= rt_max_retries

NumCalls == Cardinality({i \in DOMAIN rt_log : rt_log[i].op = "call"})

\* the first statement of the loop, attempt = 0: func is called at once
RetryInit ==
    /\ PipelineIdle
    /\ LimiterIdle
    /\ AggregatorIdle
    /\ ParserIdle
    /\ TimerIdle
    /\ rl_semaphore = rl_max_concurrent
    /\ rt_max_retries \in 0..MaxRetryArg
    /\ base_delay \in BaseDelays
    /\ max_delay \in MaxDelays
    /\ attempt = 0
    /\ last_exception = None
    /\ rt_pc = "calling"
    /\ rt_log = <<CallEntry>>
    /\ rt_outcome = None

RetryFrame == <<PipelineVars, rl_semaphore, LimiterVars, PureVars, TimerVars, rt_max_retries,
                base_delay, max_delay>>

\* `return await func(*args, **kwargs)`: func returns
FuncReturns ==
    /\ rt_pc = "calling"
    /\ rt_pc' = "returned"
    /\ rt_log' = Append(rt_log, OkEntry)
    /\ rt_outcome' = Some([value |-> "ok"])
    /\ UNCHANGED <<RetryFrame, attempt, last_exception>>

\* mutant: the retry follows the failure at once, asyncio.sleep is not awaited
FuncRaisesNoBackoff ==
    /\ rt_pc = "calling"
    /\ \E e \in FuncExceptions(NumCalls) :
         IF IsRetryable(e) /\ ~Exhausted(attempt)
         THEN /\ last_exception' = Some(e)
              /\ attempt' = attempt + 1
              /\ rt_pc' = "calling"
              /\ rt_log' = rt_log \o <<FailEntry(e), CallEntry>>
              /\ UNCHANGED rt_outcome
         ELSE /\ last_exception' = IF IsRetryable(e) THEN Some(e) ELSE last_exception
              /\ rt_pc' = "raised"
              /\ rt_log' = Append(rt_log, FailEntry(e))
              /\ rt_outcome' = Some(e)
              /\ UNCHANGED attempt
    /\ UNCHANGED RetryFrame

\* func raises: an exception outside retryable_exceptions leaves the function;
\* a retryable one is re-raised on the last attempt and followed by
\* asyncio.sleep(delay) otherwise
FuncRaises ==
    /\ rt_pc = "calling"
    /\ \E e \in FuncExceptions(NumCalls) :
         IF ~IsRetryable(e)
         THEN /\ rt_pc' = "raised"
              /\ rt_log' = Append(rt_log, FailEntry(e))
              /\ rt_outcome' = Some(e)
              /\ UNCHANGED last_exception
         ELSE /\ last_exception' = Some(e)
              /\ IF Exhausted(attempt)
                 THEN /\ rt_pc' = "raised"
                      /\ rt_log' = Append(rt_log, FailEntry(e))
                      /\ rt_outcome' = Some(e)
                 ELSE /\ rt_pc' = "sleeping"
                      /\ rt_log' = rt_log \o <<FailEntry(e), SleepEntry(Delay(attempt))>>
                      /\ UNCHANGED rt_outcome
    /\ UNCHANGED <<RetryFrame, attempt>>

\* asyncio.sleep(delay) returns: the next attempt of range(max_retries + 1)
\* calls func again; after the last one the loop ends and last_exception is raised
SleepReturns ==
    /\ rt_pc = "sleeping"
    /\ attempt' = attempt + 1
    /\ IF attempt + 1 <= rt_max_retries
       THEN /\ rt_pc' = "calling"
            /\ rt_log' = Append(rt_log, CallEntry)
            /\ UNCHANGED rt_outcome
       ELSE /\ rt_pc' = "raised"
            /\ rt_outcome' = last_exception
            /\ UNCHANGED rt_log
    /\ UNCHANGED <<RetryFrame, last_exception>>

RetryNext ==
    \/ FuncReturns
    \/ FuncRaises
    \/ SleepReturns

RetrySpec == RetryInit /\ [][RetryNext]_vars

(***************************************************************************)
(* Properties of retry_with_backoff.                                       *)
(***************************************************************************)
NumSleeps == Cardinality({i \in DOMAIN rt_log : rt_log[i].op = "sleep"})
Failures == {i \in DOMAIN rt_log : rt_log[i].op = "fail"}
RetryableFailures == {i \in Failures : rt_log[i].e.type \in retryable_exceptions}

\* rt_log is k rounds of call, failure, sleep
Rounds(k) ==
    \A j \in 0..(k - 1) :
        /\ rt_log[3 * j + 1].op = "call"
        /\ rt_log[3 * j + 2].op = "fail"
        /\ rt_log[3 * j + 3].op = "sleep"

\* C18: when func fails with a retryable error on its first k calls and then
\* succeeds, retry_with_backoff returns func's result after exactly k + 1
\* calls: nothing precedes the first call, each failed call is followed by
\* exactly one sleep and the next call, and with k = 0 there is one call and no
\* sleep.
C18_ReturnsAfterRetries ==
    rt_pc = "returned" =>
        LET k == Cardinality(Failures)
        IN  /\ Failures = RetryableFailures
            /\ k <= rt_max_retries
            /\ rt_outcome = Some([value |-> "ok"])
            /\ NumCalls = k + 1
            /\ NumSleeps = k
            /\ Len(rt_log) = 3 * k + 2
            /\ Rounds(k)
            /\ rt_log[3 * k + 1].op = "call"
            /\ rt_log[3 * k + 2].op = "ok"

\* two retried failures, then success
C18_Witness ==
    /\ rt_pc = "returned"
    /\ Cardinality(Failures) = 2
    /\ rt_max_retries = 3

\* C19: when every call of func fails with a retryable error, retry_with_backoff
\* makes max_retries + 1 calls and max_retries sleeps, none after the last
\* failure, and raises the exception of the last call; with max_retries = 0 that
\* is one call and no sleep.
C19_RaisesAfterExhaustion ==
    (rt_pc = "raised" /\ Failures = RetryableFailures) =>
        /\ NumCalls = rt_max_retries + 1
        /\ NumSleeps = rt_max_retries
        /\ Len(rt_log) = 3 * rt_max_retries + 2
        /\ Rounds(rt_max_retries)
        /\ rt_log[Len(rt_log) - 1].op = "call"
        /\ rt_log[Len(rt_log)].op = "fail"
        /\ rt_outcome = Some(rt_log[Len(rt_log)].e)
        /\ rt_outcome[1].call = rt_max_retries + 1

\* three retries, all failed
C19_Witness ==
    /\ rt_pc = "raised"
    /\ Failures = RetryableFailures
    /\ rt_max_retries = 3
    /\ NumCalls = 4

\* C20: a failure with an error outside the retryable set is the last thing
\* that happens: it is raised to the caller as it is, no sleep and no call
\* follows it, on the first call as well as after retried failures.
C20_NonRetryablePropagates ==
    \A i \in Failures \ RetryableFailures :
        /\ i = Len(rt_log)
        /\ rt_pc = "raised"
        /\ rt_outcome = Some(rt_log[i].e)
        /\ Rounds(Cardinality(RetryableFailures))
        /\ Len(rt_log) = 3 * Cardinality(RetryableFailures) + 2

\* a non-retryable failure after two retried ones
C20_Witness ==
    /\ rt_pc = "raised"
    /\ Failures # RetryableFailures
    /\ Cardinality(RetryableFailures) = 2

IsSleep(entry) == entry.op = "sleep"
\* the sleeps of the call so far, in order
Sleeps == SelectSeq(rt_log, IsSleep)

\* C21: the wait after failed attempt number a (from 0) is
\* min(base_delay * 2^a, max_delay): the first wait is base_delay unless capped,
\* each later wait is twice the one before unless capped, the waits never
\* decrease and none exceeds max_delay.
C21_BackoffDelays ==
    \A n \in 1..Len(Sleeps) :
        /\ Sleeps[n].delay = Min(base_delay * 2^(n - 1), max_delay)
        /\ Sleeps[n].delay <= max_delay
        /\ n = 1 => Sleeps[n].delay = Min(base_delay, max_delay)
        /\ n > 1 => /\ Sleeps[n].delay >= Sleeps[n - 1].delay
                    /\ Sleeps[n].delay = Min(2 * Sleeps[n - 1].delay, max_delay)

\* three waits: base_delay, its double, then the cap
C21_Witness ==
    /\ Len(Sleeps) = 3
    /\ Sleeps[1].delay = base_delay
    /\ Sleeps[2].delay = 2 * base_delay
    /\ Sleeps[3].delay = max_delay
    /\ max_delay < 4 * base_delay

(***************************************************************************)
(* orchestrator/aggregator.py: the functions of the Aggregator, each       *)
(* applied to a list of findings.                                          *)
(***************************************************************************)
\* the longest list of findings passed in
MaxFindings == 4

Finding(file, line, title, severity, confidence) ==
    [file |-> file, line |-> line, severity |-> severity, category |-> "logic",
     title |-> title, body |-> "Desc", suggestion |-> None, confidence |-> confidence,
     agent_name |-> "logic_agent"]

\* the findings the lists are made of: three spellings of one title on one line,
\* a title and a file path that hold a colon, a finding without a line
Findings ==
    { Finding("a.py", Some(1), "Bug", "critical", 7),
      Finding("a.py", Some(1), " bug ", "warning", 9),
      Finding("a.py", Some(1), "BUG", "suggestion", 7),
      Finding("a.py:1", Some(2), "x", "nitpick", 8),
      Finding("a.py", Some(1), "2:x", "warning", 8),
      Finding("a.py", None, "Bug", "critical", 7) }

RECURSIVE ListsOf(_, _)
\* the lists of exactly n elements of S
ListsOf(S, n) ==
    IF n = 0 THEN {<<>>}
    ELSE {Append(l, x) : l \in ListsOf(S, n - 1), x \in S}

\* a caller holds a list of findings and has called nothing yet
AggregatorInit ==
    /\ PipelineIdle
    /\ rl_semaphore = rl_max_concurrent
    /\ LimiterIdle
    /\ RetryIdle
    /\ ParserIdle
    /\ TimerIdle
    /\ \E n \in 0..MaxFindings : ag_comments \in ListsOf(Findings, n)
    /\ ag_pc = "called"
    /\ ag_out = None

AggregatorFrame ==
    <<PipelineVars, rl_semaphore, LimiterVars, RetryVars, ParserVars, TimerVars, ag_comments>>

CallDeduplicate ==
    /\ ag_pc = "called"
    /\ ag_out' = Some(deduplicate_comments(ag_comments))
    /\ ag_pc' = "deduplicate_comments"
    /\ UNCHANGED AggregatorFrame

CallRank ==
    /\ ag_pc = "called"
    /\ ag_out' = Some(rank_comments(ag_comments))
    /\ ag_pc' = "rank_comments"
    /\ UNCHANGED AggregatorFrame

CallScore ==
    /\ ag_pc = "called"
    /\ ag_out' = Some(compute_risk_score(ag_comments))
    /\ ag_pc' = "compute_risk_score"
    /\ UNCHANGED AggregatorFrame

CallAggregate ==
    /\ ag_pc = "called"
    /\ ag_out' = Some(aggregate_comments(ag_comments))
    /\ ag_pc' = "aggregate_comments"
    /\ UNCHANGED AggregatorFrame

AggregatorNext ==
    \/ CallDeduplicate
    \/ CallRank
    \/ CallScore
    \/ CallAggregate

AggregatorSpec == AggregatorInit /\ [][AggregatorNext]_vars

(***************************************************************************)
(* Properties of the Aggregator.                                           *)
(***************************************************************************)
\* the key of a finding as a triple: file, line (None is a value), and the
\* title lowercased and trimmed
KeyTriple(c) == <<c.file, c.line, Strip(Lower(c.title))>>

Deduplicated == ag_pc = "deduplicate_comments"
Ranked == ag_pc = "rank_comments"
Scored == ag_pc = "compute_risk_score"
Aggregated == ag_pc = "aggregate_comments"
Out == ag_out[1]

\* the list without its last element
Front(l) == SubSeq(l, 1, Len(l) - 1)

\* C22: deduplicate_comments returns exactly one finding for each key triple of
\* its input, and each returned finding is an element of the input that has
\* the highest confidence of its key group and is the first of the group with
\* that confidence.
C22_OnePerKey ==
    Deduplicated =>
        /\ \A i \in DOMAIN ag_comments :
              Cardinality({j \in DOMAIN Out : KeyTriple(Out[j]) = KeyTriple(ag_comments[i])}) = 1
        /\ \A j \in DOMAIN Out :
              \E i \in DOMAIN ag_comments :
                  /\ ag_comments[i] = Out[j]
                  /\ \A k \in DOMAIN ag_comments :
                        KeyTriple(ag_comments[k]) = KeyTriple(ag_comments[i]) =>
                            /\ ag_comments[k].confidence <= ag_comments[i].confidence
                            /\ k < i => ag_comments[k].confidence < ag_comments[i].confidence

\* C23: two findings of the input whose key triples differ are never merged:
\* the output holds a finding of each of the two keys.
C23_NeverMerged ==
    Deduplicated =>
        \A i, j \in DOMAIN ag_comments :
            KeyTriple(ag_comments[i]) # KeyTriple(ag_comments[j]) =>
                \E a, b \in DOMAIN Out :
                    /\ a # b
                    /\ KeyTriple(Out[a]) = KeyTriple(ag_comments[i])
                    /\ KeyTriple(Out[b]) = KeyTriple(ag_comments[j])

\* C24: deduplicate_comments applied to its own output returns that output,
\* the same elements in the same order.
C24_Idempotent == Deduplicated => deduplicate_comments(Out) = Out

\* a list that lost a finding and kept two or more
C24_Witness ==
    /\ Deduplicated
    /\ Len(Out) >= 2
    /\ Len(Out) < Len(ag_comments)

\* C25: rank_comments(deduplicate_comments(L)) is non-decreasing in severity
\* rank and, within equal severity, non-increasing in confidence; so is
\* rank_comments of any list.
C25_RankOrder ==
    /\ Aggregated => InRankOrder(Out.ranked)
    /\ Ranked => InRankOrder(Out)

\* findings were merged, and two findings of one severity that arrived in
\* ascending confidence come out in descending confidence
C25_Witness ==
    /\ Aggregated
    /\ Len(Out.ranked) < Len(ag_comments)
    /\ \E i \in 1..(Len(Out.ranked) - 1) :
          /\ Out.ranked[i].severity = Out.ranked[i + 1].severity
          /\ Out.ranked[i].confidence > Out.ranked[i + 1].confidence
          /\ \E m, n \in DOMAIN ag_comments :
                /\ m < n
                /\ ag_comments[m] = Out.ranked[i + 1]
                /\ ag_comments[n] = Out.ranked[i]

\* the number of findings of severity s in l
CountOf(l, s) == Cardinality({i \in DOMAIN l : l[i].severity = s})

WeightedSum(l) ==
    10 * CountOf(l, "critical") + 3 * CountOf(l, "warning") + CountOf(l, "suggestion")

\* C26: with S the weighted sum of the input (critical 10, warning 3,
\* suggestion 1, nitpick 0), compute_risk_score returns low for S <= 5, medium
\* for 5 < S <= 15, high for 15 < S <= 30 and critical for S > 30.
C26_Thresholds ==
    Scored =>
        LET S == WeightedSum(ag_comments)
        IN  Out = IF S <= 5 THEN "low"
                  ELSE IF S <= 15 THEN "medium"
                  ELSE IF S <= 30 THEN "high"
                  ELSE "critical"

\* the boundary sum 30 is scored high
C26_Witness ==
    /\ Scored
    /\ WeightedSum(ag_comments) = 30
    /\ Out = "high"

RiskLevel == [low |-> 0, medium |-> 1, high |-> 2, critical |-> 3]

\* C27: the risk level aggregate_comments computes for a list with a finding
\* added is never lower than the level it computes for the list without it.
C27_AggregateMonotonic ==
    (Aggregated /\ ag_comments # <<>>) =>
        RiskLevel[Out.risk] >= RiskLevel[aggregate_comments(Front(ag_comments)).risk]

\* C30: compute_risk_score of a list with a finding appended is never lower
\* than compute_risk_score of the list: no severity weight is negative and the
\* weighted sum does not decrease.
C30_ScoreMonotonic ==
    /\ \A s \in Severity : SEVERITY_WEIGHTS(s) >= 0
    /\ (Scored /\ ag_comments # <<>>) =>
          /\ TotalWeight(ag_comments) >= TotalWeight(Front(ag_comments))
          /\ RiskLevel[Out] >= RiskLevel[compute_risk_score(Front(ag_comments))]

\* the appended finding takes the list from one level to the next
C30_Witness ==
    /\ Scored
    /\ ag_comments # <<>>
    /\ RiskLevel[Out] > RiskLevel[compute_risk_score(Front(ag_comments))]

(***************************************************************************)
(* agents/base.py: _parse_response applied to a response.                  *)
(***************************************************************************)
\* the longest list of entries in a response
MaxEntries == 3

\* the entries a response is made of
Entries ==
    { \* a finding with every member
      JDict([title |-> JStr("Null check"), body |-> JStr("Desc"),
             severity |-> JStr("warning"), confidence |-> JNum(8), line |-> JNum(2)]),
      \* an object without members: every default applies
      JDict(<<>>),
      \* numbers sent as strings
      JDict([title |-> JStr("Loop"), confidence |-> JStr("0.9"), line |-> JStr("7")]),
      \* not an object
      JStr("not a dict"),
      \* a severity that is no member of Severity
      JDict([title |-> JStr("Leak"), severity |-> JStr("blocker")]),
      \* a confidence above 1.0
      JDict([title |-> JStr("Race"), confidence |-> JNum(15)]),
      \* a confidence float() rejects
      JDict([title |-> JStr("Typo"), confidence |-> JNull]) }

\* the responses: the entries under each of the member names that are read, or
\* as a bare list; a member that cannot be iterated; a string; invalid JSON
Responses ==
    UNION { { JDict([findings |-> JList(l)]), JDict([issues |-> JList(l)]),
              JDict([comments |-> JList(l)]), JList(l) } :
            l \in UNION {ListsOf(Entries, n) : n \in 0..MaxEntries} }
      \cup { JDict([findings |-> JNull]), JDict([findings |-> JStr("none")]),
             JStr("no findings"), JInvalid }

ParsedFile == "a.py"
ParsingAgent == "logic_agent"

ParserInit ==
    /\ PipelineIdle
    /\ rl_semaphore = rl_max_concurrent
    /\ LimiterIdle
    /\ RetryIdle
    /\ AggregatorIdle
    /\ TimerIdle
    /\ pr_content \in Responses
    /\ pr_pc = "called"
    /\ pr_comments = <<>>

ParserFrame ==
    <<PipelineVars, rl_semaphore, LimiterVars, RetryVars, AggregatorVars, TimerVars, pr_content>>

ParseReturns ==
    /\ pr_pc = "called"
    /\ LET parsed == _parse_response(pr_content, ParsedFile, ParsingAgent)
       IN  /\ parsed.raised = None
           /\ pr_comments' = parsed.comments
    /\ pr_pc' = "returned"
    /\ UNCHANGED ParserFrame

ParseRaises ==
    /\ pr_pc = "called"
    /\ _parse_response(pr_content, ParsedFile, ParsingAgent).raised # None
    /\ pr_pc' = "raised"
    /\ UNCHANGED <<ParserFrame, pr_comments>>

ParserNext ==
    \/ ParseReturns
    \/ ParseRaises

ParserSpec == ParserInit /\ [][ParserNext]_vars

(***************************************************************************)
(* Properties of _parse_response.                                          *)
(***************************************************************************)
\* the entries of the response, when it holds a list of entries
EntriesOf(content) ==
    IF content.json = "list" THEN content.items
    ELSE IF content.json = "dict" /\ FindingsOf(content).json = "list"
    THEN FindingsOf(content).items
    ELSE <<>>

Member(e, k) == e.members[k]

\* a number in tenths between 0.0 and 1.0, as a number or as text
IsConfidence(v) ==
    \/ v.json = "num" /\ v.v \in 0..10
    \/ v.json = "str" /\ v.v \in {"0", "1", "0.9"}

\* a well-formed finding record: an object whose members, where present, have
\* the type and range of the field they fill
WellFormed(e) ==
    /\ e.json = "dict"
    /\ Has(e, "line") => \/ Member(e, "line").json \in {"null", "num"}
                         \/ Member(e, "line") = JStr("7")
    /\ Has(e, "severity") => /\ Member(e, "severity").json = "str"
                             /\ Member(e, "severity").v \in Severity
    /\ Has(e, "title") => Member(e, "title").json = "str"
    /\ Has(e, "body") => Member(e, "body").json = "str"
    /\ Has(e, "suggestion") => Member(e, "suggestion").json \in {"null", "str"}
    /\ Has(e, "confidence") => IsConfidence(Member(e, "confidence"))

\* the title of the finding made from a well-formed entry
TitleOf(e) == IF Has(e, "title") THEN Member(e, "title").v ELSE "Untitled finding"

\* C28: the list _parse_response returns holds one finding for each
\* well-formed entry of the response and none for the others, in the order of
\* the entries: the k-th well-formed entry makes the k-th finding, whatever
\* malformed entries stand before, between or after.
C28_SkipsIndividually ==
    pr_pc = "returned" =>
        LET entries == EntriesOf(pr_content)
            kept == {i \in DOMAIN entries : WellFormed(entries[i])}
        IN  /\ Len(pr_comments) = Cardinality(kept)
            /\ \A i \in kept :
                  LET k == Cardinality({j \in kept : j <= i})
                  IN  /\ pr_comments[k].title = TitleOf(entries[i])
                      /\ pr_comments[k].file = ParsedFile

\* a malformed entry between two well-formed ones: both findings are returned
C28_Witness ==
    /\ pr_pc = "returned"
    /\ Len(pr_comments) = 2
    /\ LET entries == EntriesOf(pr_content)
       IN  /\ Len(entries) = 3
           /\ WellFormed(entries[1])
           /\ ~WellFormed(entries[2])
           /\ WellFormed(entries[3])

(***************************************************************************)
(* Further properties of the Aggregator.                                   *)
(***************************************************************************)
\* the level of a weighted sum
LevelOf(S) ==
    IF S > 30 THEN "critical" ELSE IF S > 15 THEN "high" ELSE IF S > 5 THEN "medium" ELSE "low"

\* C31: the risk level aggregate_comments returns is that of the deduplicated
\* findings: it equals compute_risk_score(deduplicate_comments(L)), and a
\* finding removed by deduplication adds no weight to the sum.
C31_ScoreOfDeduplicated ==
    Aggregated =>
        /\ Out.risk = compute_risk_score(deduplicate_comments(ag_comments))
        /\ Out.risk = LevelOf(WeightedSum(Out.ranked))
        /\ Len(Out.ranked) = Cardinality({DedupKey(ag_comments[i]) : i \in DOMAIN ag_comments})

\* deduplication removed a finding and the level is lower for it
C31_Witness ==
    /\ Aggregated
    /\ Len(Out.ranked) < Len(ag_comments)
    /\ RiskLevel[Out.risk] < RiskLevel[LevelOf(WeightedSum(ag_comments))]

\* the findings of l that have the severity and the confidence of c, in order
SameRank(l, c) ==
    SelectSeq(l, LAMBDA x : x.severity = c.severity /\ x.confidence = c.confidence)

Occurrences(l, c) == Cardinality({i \in DOMAIN l : l[i] = c})

\* C32: rank_comments returns a permutation of its input, and findings of
\* equal severity and equal confidence keep their relative input order.
C32_StablePermutation ==
    Ranked =>
        /\ Len(Out) = Len(ag_comments)
        /\ \A c \in Findings : Occurrences(Out, c) = Occurrences(ag_comments, c)
        /\ \A c \in Findings : SameRank(Out, c) = SameRank(ag_comments, c)

\* the list was reordered, and two different findings of equal severity and
\* equal confidence are in it
C32_Witness ==
    /\ Ranked
    /\ Out # ag_comments
    /\ \E m, n \in DOMAIN ag_comments :
          /\ m < n
          /\ ag_comments[m] # ag_comments[n]
          /\ ag_comments[m].severity = ag_comments[n].severity
          /\ ag_comments[m].confidence = ag_comments[n].confidence

\* the place in the input where the key of c occurs first
FirstOccurrence(c) ==
    CHOOSE i \in DOMAIN ag_comments :
        /\ DedupKey(ag_comments[i]) = DedupKey(c)
        /\ \A j \in 1..(i - 1) : DedupKey(ag_comments[j]) # DedupKey(c)

\* C39: deduplicate_comments returns the surviving findings in the order in
\* which their keys (the key the function builds) occur first in the input: a
\* later duplicate of higher confidence takes the place of the one it replaces.
C39_FirstOccurrenceOrder ==
    Deduplicated =>
        \A a, b \in DOMAIN Out :
            a < b => FirstOccurrence(Out[a]) < FirstOccurrence(Out[b])

\* the first finding returned replaced the first of the input, and came after
\* a finding of another key
C39_Witness ==
    /\ Deduplicated
    /\ Len(Out) >= 2
    /\ Out[1] # ag_comments[1]
    /\ DedupKey(Out[1]) = DedupKey(ag_comments[1])
    /\ \E i, j \in DOMAIN ag_comments :
          /\ i < j
          /\ ag_comments[i] = Out[2]
          /\ ag_comments[j] = Out[1]

(***************************************************************************)
(* Further properties of the Rate Limiter.                                 *)
(***************************************************************************)
\* what _refill makes of a bucket of capacity `rate` after since_refill seconds
AfterRefill(bucket, rate) ==
    IF bucket + since_refill * rate > rate * 60 THEN rate * 60 ELSE bucket + since_refill * rate

\* C33: the request bucket stays between 0 and rpm and the token bucket between
\* 0 and tpm; the buckets and the last-refill time change only in a pass of the
\* loop of acquire, which adds elapsed * rate / 60 to each bucket, capped at its
\* capacity, before the budget is taken off, and sets the last-refill time to now.
C33_BucketsRefilledLazily ==
    /\ [](/\ 0 <= _request_tokens /\ _request_tokens <= _rpm * 60
          /\ 0 <= _token_tokens /\ _token_tokens <= _tpm * 60)
    /\ [][(\/ _request_tokens' # _request_tokens
           \/ _token_tokens' # _token_tokens
           \/ since_refill' < since_refill) =>
             /\ since_refill' = 0
             /\ \E c \in Callers :
                   \/ /\ Passes(c)
                      /\ _request_tokens' = AfterRefill(_request_tokens, _rpm) - 60
                      /\ _token_tokens' =
                            AfterRefill(_token_tokens, _tpm) - estimated_tokens[c] * 60
                   \/ /\ Fails(c)
                      /\ _request_tokens' = AfterRefill(_request_tokens, _rpm)
                      /\ _token_tokens' = AfterRefill(_token_tokens, _tpm)]_vars

\* a pass of the loop made 30 seconds after a caller got through has refilled
\* the token bucket to a part of its capacity
C33_Witness ==
    /\ since_refill = 0
    /\ \E i \in DOMAIN recent : recent[i].age > 0
    /\ \E c \in Callers : rl_pc[c] = "sleeping"
    /\ 0 < _token_tokens
    /\ _token_tokens < _tpm * 60

\* the wait the token deficit asks for, in units of 1 / (10 * tpm) seconds: the
\* time the refill takes to make up estimated_tokens minus the bucket `tokens`
\* (in sixtieths of a token), between 0.1 s and 5 s
DeficitWait(estimated, tokens, tpm) ==
    LET deficit == estimated * 60 - tokens
        wait == 10 * deficit
    IN  IF wait < tpm THEN tpm ELSE IF wait > 50 * tpm THEN 50 * tpm ELSE wait

\* C34: when a pass of the loop of acquire finds the budget insufficient, the
\* wait before the next check is proportional to the token deficit,
\* estimated_tokens minus the tokens in the bucket, and lies between 0.1 s
\* and 5 s.
C34_WaitByDeficit ==
    [][\A c \in Callers :
          Fails(c) =>
              /\ wait_time(estimated_tokens[c], _tpm) >= _tpm
              /\ wait_time(estimated_tokens[c], _tpm) <= 50 * _tpm
              /\ wait_time(estimated_tokens[c], _tpm) =
                    DeficitWait(estimated_tokens[c], _token_tokens', _tpm)
              /\ wake_in'[c] =
                    (DeficitWait(estimated_tokens[c], _token_tokens', _tpm) + 10 * _tpm - 1)
                        \div (10 * _tpm)]_vars

\* the caller was cancelled in acquire after it had passed the budget check:
\* every caller has passed, one of them holds the only slot
C38_Witness ==
    /\ Cardinality(Callers) = 2
    /\ Len(recent) = 2
    /\ rl_semaphore = 0
    /\ \E c, d \in Callers :
          /\ rl_pc[c] = "cancelled_early"
          /\ rl_pc[d] = "holding"
    /\ _request_tokens = (_rpm - 2) * 60

\* C38: acquire takes the request and the tokens off the buckets in the pass
\* that sends the caller to wait for a concurrency slot; when the caller is
\* cancelled while it waits there, nothing is given back to the buckets, the
\* number of free slots stays as it is, and the caller holds no slot.
C38_CancelledAfterDeduction ==
    /\ [][\A c \in Callers :
             /\ (rl_pc[c] # "waiting_slot" /\ rl_pc'[c] = "waiting_slot") =>
                   /\ _request_tokens' = AfterRefill(_request_tokens, _rpm) - 60
                   /\ _token_tokens' =
                         AfterRefill(_token_tokens, _tpm) - estimated_tokens[c] * 60
                   /\ rl_semaphore' = rl_semaphore
             /\ (rl_pc[c] = "waiting_slot" /\ rl_pc'[c] = "cancelled_early") =>
                   /\ _request_tokens' = _request_tokens
                   /\ _token_tokens' = _token_tokens
                   /\ rl_semaphore' = rl_semaphore
                   /\ recent' = recent]_vars
    /\ [](rl_semaphore + Cardinality(Holding) = rl_capacity)

(***************************************************************************)
(* llm/rate_limiter.py: callers that call acquire again, and release()     *)
(* called outside `async with`.                                            *)
(***************************************************************************)
\* a caller that is through with the limiter enters `async with limiter` anew
CallsAgain(c) ==
    /\ rl_pc[c] \in Finished
    /\ rl_pc' = [rl_pc EXCEPT ![c] = "idle"]
    /\ wake_in' = [wake_in EXCEPT ![c] = 0]
    /\ UNCHANGED <<PipelineVars, RetryVars, PureVars, TimerVars, _rpm, _tpm, rl_capacity, _request_tokens,
                   _token_tokens, since_refill, rl_semaphore, estimated_tokens, recent>>

\* time moves on once every caller that is due has run its pass of the loop:
\* a caller checks the budget when it calls acquire and when its sleep is over,
\* not later
TickPunctual(d) ==
    /\ \A c \in Callers : ~AtLoopTop(c)
    /\ Tick(d)

LimiterRepeatNext ==
    \/ \E c \in Callers : Acquire(c)
    \/ \E c \in Callers : SlotAcquired(c)
    \/ \E c \in Callers : BodyExits(c)
    \/ \E c \in Callers : CancelledInAcquire(c)
    \/ \E c \in Callers : CallsAgain(c)
    \/ \E d \in TickSteps : TickPunctual(d)

LimiterRepeatSpec == LimiterInit /\ [][LimiterRepeatNext]_vars

\* The event loop runs every caller that is ready, time moves on, and the body
\* of every `async with limiter` ends; asyncio.Semaphore wakes its waiters in
\* the order they came, so a caller that waits for a slot gets one of the slots
\* that keep being released; time advances whatever the callers do in between;
\* nobody is obliged to call again or to cancel a caller.
LimiterRepeatFairSpec ==
    /\ LimiterRepeatSpec
    /\ SF_vars(\E d \in TickSteps : TickPunctual(d))
    /\ \A c \in 1..MaxCallers : WF_vars(c \in Callers /\ Acquire(c))
    /\ \A c \in 1..MaxCallers : SF_vars(c \in Callers /\ SlotAcquired(c))
    /\ \A c \in 1..MaxCallers : WF_vars(c \in Callers /\ BodyExits(c))

InAcquire(c) == c \in Callers /\ rl_pc[c] \in {"idle", "sleeping", "waiting_slot"}

\* C37: with rpm at least 1, time advancing and every holder releasing, every
\* call of acquire with estimated_tokens at most tpm eventually returns (or is
\* cancelled), also when the other callers keep calling acquire.
C37_NoStarvation ==
    \A c \in 1..MaxCallers :
        (InAcquire(c) /\ c \in Budgeted) ~> (c \in Callers /\ rl_pc[c] \notin {"idle", "sleeping", "waiting_slot"})

\* the most calls of release() made without an acquire before them
MaxStray == 1

\* release() called by code that holds no slot: asyncio.Semaphore.release()
\* adds one to the value, whatever the value is
StrayRelease ==
    /\ rl_semaphore + Cardinality(Holding) < rl_capacity + MaxStray
    /\ rl_semaphore' = rl_semaphore + 1
    /\ UNCHANGED <<PipelineVars, RetryVars, PureVars, TimerVars, _rpm, _tpm, rl_capacity, _request_tokens,
                   _token_tokens, since_refill, rl_pc, estimated_tokens, wake_in, recent>>

LimiterMisuseNext ==
    \/ LimiterNext
    \/ StrayRelease

LimiterMisuseSpec == LimiterInit /\ [][LimiterMisuseNext]_vars

\* C40: whatever calls of acquire and release are made, a release() without an
\* acquire included, the free concurrency slots plus the held ones are
\* max_concurrent, and the callers that hold the limiter are at most
\* max_concurrent.
C40_SlotsConserved ==
    /\ rl_semaphore + Cardinality(Holding) = rl_capacity
    /\ Cardinality(Holding) <= rl_capacity

(***************************************************************************)
(* orchestrator/pipeline.py: the gate and the timeout of wait_for, with    *)
(* time.                                                                   *)
(***************************************************************************)
\* the most tasks handed to gather
MaxTimedTasks == 3
\* timeout_per_agent, in ticks
Timeouts == {1, 2}

TimedTasks == DOMAIN gt_pc

TimerInit ==
    /\ PipelineIdle
    /\ rl_semaphore = rl_max_concurrent
    /\ LimiterIdle
    /\ RetryIdle
    /\ AggregatorIdle
    /\ ParserIdle
    /\ gt_timeout \in Timeouts
    /\ gt_semaphore \in 1..MaxGate
    /\ \E n \in 1..MaxTimedTasks :
          /\ gt_pc = [t \in 1..n |-> "waiting"]
          /\ gt_queued = [t \in 1..n |-> 0]
          /\ gt_ran = [t \in 1..n |-> 0]
          /\ gt_outcome = [t \in 1..n |-> "none"]

TimerFrame == <<PipelineVars, rl_semaphore, LimiterVars, RetryVars, PureVars, gt_timeout>>

\* `async with semaphore` is entered; wait_for starts its timer
GateEntered(t) ==
    /\ gt_pc[t] = "waiting"
    /\ gt_semaphore > 0
    /\ gt_semaphore' = gt_semaphore - 1
    /\ gt_pc' = [gt_pc EXCEPT ![t] = "running"]
    /\ UNCHANGED <<TimerFrame, gt_queued, gt_ran, gt_outcome>>

\* analyze returns before the timer fires; `async with` frees the slot
AnalyzeReturns(t) ==
    /\ gt_pc[t] = "running"
    /\ gt_pc' = [gt_pc EXCEPT ![t] = "done"]
    /\ gt_outcome' = [gt_outcome EXCEPT ![t] = "returned"]
    /\ gt_semaphore' = gt_semaphore + 1
    /\ UNCHANGED <<TimerFrame, gt_queued, gt_ran>>

\* mutant: wait_for wraps the whole of _bounded_analysis, its timer runs from
\* the creation of the task
WaitForTimesOutFromCreation(t) ==
    /\ gt_pc[t] \in {"waiting", "running"}
    /\ gt_queued[t] + gt_ran[t] >= gt_timeout
    /\ gt_pc' = [gt_pc EXCEPT ![t] = "done"]
    /\ gt_outcome' = [gt_outcome EXCEPT ![t] = "timeout"]
    /\ gt_semaphore' = IF gt_pc[t] = "running" THEN gt_semaphore + 1 ELSE gt_semaphore
    /\ UNCHANGED <<TimerFrame, gt_queued, gt_ran>>

\* the timer of wait_for fires timeout_per_agent after wait_for was entered
WaitForTimesOut(t) ==
    /\ gt_pc[t] = "running"
    /\ gt_ran[t] = gt_timeout
    /\ gt_pc' = [gt_pc EXCEPT ![t] = "done"]
    /\ gt_outcome' = [gt_outcome EXCEPT ![t] = "timeout"]
    /\ gt_semaphore' = gt_semaphore + 1
    /\ UNCHANGED <<TimerFrame, gt_queued, gt_ran>>

\* one tick passes, once the timers that are due have fired and the free slots
\* of the gate have gone to the tasks that wait
ClockTick ==
    /\ \E t \in TimedTasks : gt_pc[t] # "done"
    /\ \A t \in TimedTasks : gt_pc[t] = "running" => gt_ran[t] < gt_timeout
    /\ gt_semaphore > 0 => \A t \in TimedTasks : gt_pc[t] # "waiting"
    /\ gt_queued' = [t \in TimedTasks |->
                        IF gt_pc[t] = "waiting" /\ gt_queued[t] <= gt_timeout
                        THEN gt_queued[t] + 1 ELSE gt_queued[t]]
    /\ gt_ran' = [t \in TimedTasks |->
                        IF gt_pc[t] = "running" THEN gt_ran[t] + 1 ELSE gt_ran[t]]
    /\ UNCHANGED <<TimerFrame, gt_semaphore, gt_pc, gt_outcome>>

TimerNext ==
    \/ \E t \in TimedTasks : GateEntered(t)
    \/ \E t \in TimedTasks : AnalyzeReturns(t)
    \/ \E t \in TimedTasks : WaitForTimesOut(t)
    \/ ClockTick

TimerSpec == TimerInit /\ [][TimerNext]_vars

\* C36: the timeout of a task counts from the moment the task has passed the
\* gate: no task is timed out while it waits for a slot, however long it
\* waits, and a task is timed out only when timeout_per_agent has passed since
\* it entered the gate.
C36_TimeoutAfterGate ==
    /\ [](\A t \in TimedTasks :
            /\ gt_pc[t] = "waiting" => gt_outcome[t] = "none"
            /\ gt_outcome[t] = "timeout" => gt_ran[t] = gt_timeout
            /\ gt_ran[t] <= gt_timeout)
    /\ [][\A t \in TimedTasks :
            (gt_outcome[t] = "none" /\ gt_outcome'[t] = "timeout") =>
                /\ gt_pc[t] = "running"
                /\ gt_ran[t] = gt_timeout]_vars

\* a task waited for the gate longer than the timeout, then ran for the whole
\* of it
C36_Witness ==
    \E t \in TimedTasks :
        /\ gt_queued[t] > gt_timeout
        /\ gt_outcome[t] = "timeout"
        /\ gt_ran[t] = gt_timeout

====
